---------------------------- MODULE Spec2Model ----------------------------
(***************************************************************************)
(* BlindBet: confidential binary prediction market (BlindBetMarket.sol,    *)
(* Resolvable.sol, PayoutCalculator.sol).  Encrypted values are modelled   *)
(* by their plaintexts; a ciphertext handle is modelled by the identity of *)
(* the value it refers to.                                                 *)
(***************************************************************************)
EXTENDS Integers, Sequences, FiniteSets, TLC

(***************************************************************************)
(* 64-bit unsigned arithmetic.  A uint64 / euint64 is a little-endian      *)
(* sequence of NumLimbs limbs in base LimbBase, so that products and sums  *)
(* wrap at 2^64 exactly as the EVM and the FHE coprocessor do.             *)
(***************************************************************************)
WordBits == 64
\* limbs of 8 bits
LimbBase == 2 ^ 8
NumLimbs == WordBits \div 8
Limbs == 1..NumLimbs

\* limb i of a (0 beyond its length)
Limb(a, i) == IF i <= Len(a) THEN a[i] ELSE 0

\* a small natural number (below 2^31) as a uint64
ToU64(n) ==
  [i \in Limbs |-> IF i <= 4 THEN (n \div (LimbBase ^ (i - 1))) % LimbBase ELSE 0]

\* does the uint64 fit the model's small naturals
FitsNat(a) == (\A i \in 5..NumLimbs : a[i] = 0) /\ a[4] < 128

\* a uint64 that fits, as a natural number
FromU64(a) == a[1] + LimbBase * a[2] + (LimbBase ^ 2) * a[3] + (LimbBase ^ 3) * a[4]

U64Zero == [i \in Limbs |-> 0]
U64Max == [i \in Limbs |-> LimbBase - 1]

RECURSIVE AddLimbs(_, _, _, _)
AddLimbs(a, b, i, carry) ==
  IF i > NumLimbs THEN <<carry>>
  ELSE LET s == a[i] + b[i] + carry
       IN <<s % LimbBase>> \o AddLimbs(a, b, i + 1, s \div LimbBase)

\* a + b modulo 2^64 (FHE.add; unchecked addition)
U64Add(a, b) == SubSeq(AddLimbs(a, b, 1, 0), 1, NumLimbs)
\* the carry out of a + b (checked Solidity addition reverts on it)
U64AddOverflows(a, b) == AddLimbs(a, b, 1, 0)[NumLimbs + 1] # 0

RECURSIVE SubLimbs(_, _, _, _)
SubLimbs(a, b, i, borrow) ==
  IF i > NumLimbs THEN <<borrow>>
  ELSE LET s == a[i] - b[i] - borrow
       IN IF s < 0 THEN <<s + LimbBase>> \o SubLimbs(a, b, i + 1, 1)
          ELSE <<s>> \o SubLimbs(a, b, i + 1, 0)

\* a - b modulo 2^64 (FHE.sub; unchecked subtraction)
U64Sub(a, b) == SubSeq(SubLimbs(a, b, 1, 0), 1, NumLimbs)
U64Lt(a, b) == SubLimbs(a, b, 1, 0)[NumLimbs + 1] # 0

RECURSIVE ColumnSum(_, _, _, _)
ColumnSum(a, b, k, i) ==
  IF i > k THEN 0
  ELSE Limb(a, i) * Limb(b, k + 1 - i) + ColumnSum(a, b, k, i + 1)

\* the low n limbs of the product a * b, followed by the carry into limb n + 1
RECURSIVE MulLimbs(_, _, _, _, _)
MulLimbs(a, b, k, carry, n) ==
  IF k > n THEN <<carry>>
  ELSE LET s == ColumnSum(a, b, k, 1) + carry
       IN <<s % LimbBase>> \o MulLimbs(a, b, k + 1, s \div LimbBase, n)

\* a * b modulo 2^64 (FHE.mul; unchecked multiplication)
U64Mul(a, b) == SubSeq(MulLimbs(a, b, 1, 0, NumLimbs), 1, NumLimbs)
\* does the full product a * b need more than 64 bits
U64MulOverflows(a, b) ==
  LET full == MulLimbs(a, b, 1, 0, 2 * NumLimbs)
  IN \E i \in (NumLimbs + 1)..(2 * NumLimbs + 1) : full[i] # 0

\* bit j (0 = least significant) of a
Bit(a, j) == (a[(j \div 8) + 1] \div (2 ^ (j % 8))) % 2

\* 2 * a + bit modulo 2^64
Shl1(a, bit) == SubSeq(AddLimbs(a, a, 1, bit), 1, NumLimbs)

\* binary long division: <<quotient, remainder>> after consuming bits j..0 of n
\* (the tests on q and ge make each step compute its operands before the next)
RECURSIVE DivBits(_, _, _, _, _)
DivBits(n, d, j, q, r) ==
  IF j < 0 \/ q[1] < 0 THEN <<q, r>>
  ELSE LET top == r[NumLimbs] >= LimbBase \div 2
           r2 == Shl1(r, Bit(n, j))
           ge == top \/ ~U64Lt(r2, d)
       IN IF ge THEN DivBits(n, d, j - 1, Shl1(q, 1), U64Sub(r2, d))
          ELSE DivBits(n, d, j - 1, Shl1(q, 0), r2)

\* short division by a divisor below 2^23, most significant limb first:
\* <<quotient, remainder>> after consuming limbs i..1 of n
RECURSIVE DivShort(_, _, _, _)
DivShort(n, d, i, r) ==
  IF i < 1 THEN << >>
  ELSE LET cur == r * LimbBase + n[i]
       IN DivShort(n, d, i - 1, cur % d) \o <<cur \div d>>

IsShort(d) == (\A i \in 4..NumLimbs : d[i] = 0) /\ d[3] < LimbBase \div 2

\* floor(n / d) for d # 0 (FHE.div by a plaintext divisor; Solidity division)
U64Div(n, d) ==
  IF IsShort(d) THEN DivShort(n, FromU64(d), NumLimbs, 0)
  ELSE DivBits(n, d, WordBits - 1, U64Zero, U64Zero)[1]

(***************************************************************************)
(* Arithmetic on the unbounded integers, for values given as uint64: the   *)
(* full product of two uint64 on 2 * NumLimbs limbs, and comparisons.      *)
(***************************************************************************)
WideLimbs == 2 * NumLimbs
WideMul(a, b) == SubSeq(MulLimbs(a, b, 1, 0, WideLimbs), 1, WideLimbs)

\* x + y on n limbs, for x and y of any length
RECURSIVE WideAddLimbs(_, _, _, _, _)
WideAddLimbs(x, y, i, carry, n) ==
  IF i > n THEN << >>
  ELSE LET s == Limb(x, i) + Limb(y, i) + carry
       IN <<s % LimbBase>> \o WideAddLimbs(x, y, i + 1, s \div LimbBase, n)
WideAdd(x, y) == WideAddLimbs(x, y, 1, 0, WideLimbs + 1)

\* -1, 0 or 1 as x is below, equal to or above y, from limb i downwards
RECURSIVE WideCmp(_, _, _)
WideCmp(x, y, i) ==
  IF i < 1 THEN 0
  ELSE IF Limb(x, i) < Limb(y, i) THEN -1
  ELSE IF Limb(x, i) > Limb(y, i) THEN 1
  ELSE WideCmp(x, y, i - 1)
WideLe(x, y) == WideCmp(x, y, WideLimbs + 1) <= 0
WideLt(x, y) == WideCmp(x, y, WideLimbs + 1) < 0

\* q = floor(s * l / w) over the integers, for w # 0
IsFloorQuotient(q, s, l, w) ==
  /\ WideLe(WideMul(q, w), WideMul(s, l))
  /\ WideLt(WideMul(s, l), WideAdd(WideMul(q, w), w))

(***************************************************************************)
(* FHE operations on euint64 values that fit the model's naturals.         *)
(***************************************************************************)
FHEadd(a, b) == FromU64(U64Add(ToU64(a), ToU64(b)))
FHEsub(a, b) == FromU64(U64Sub(ToU64(a), ToU64(b)))
\* FHE.select(cond, a, b): branchless choice
FHEselect(cond, a, b) == IF cond THEN a ELSE b

(***************************************************************************)
(* Bounds of the model and the sets inputs are drawn from.                 *)
(***************************************************************************)
MaxMarkets == 1
MaxBets == 2
MaxTime == 7200
\* market ids of the storage: one more than the main specification creates
TwoMarkets == 2

Bettors == {"alice", "bob"}
Users == Bettors \cup {"owner", "resolver"}
ZeroAddress == "zero"
MarketAddr == "market"
Holders == Bettors \cup {MarketAddr}
MarketIds == 0..(TwoMarkets - 1)

\* the factory: at most MaxDeploys markets are deployed; the addresses the
\* deployments get, in order; the ids and addresses that are queried
MaxDeploys == 2
DeployedAddress == <<"m0", "m1", "m2", "m3">>
DeployedAddresses == {DeployedAddress[i] : i \in 1..Len(DeployedAddress)}
FactoryIds == 0..MaxDeploys
Addresses == Users \cup {ZeroAddress, "collector", "impl", "token"} \cup DeployedAddresses
BetAmounts == {0, 500, 1000}
TickSteps == {3600}
QuestionLengths == {9, 10}
Durations == {3599, 3600}

\* IBlindBetMarket.MarketState
Open == 0
Locked == 1
Resolving == 2
Resolved == 3
\* IBlindBetMarket.Outcome
NotSet == 0
Yes == 1
No == 2
Invalid == 3
Outcomes == {NotSet, Yes, No, Invalid}

\* MarketValidator limits
MIN_QUESTION_LENGTH == 10
MAX_QUESTION_LENGTH == 500
MIN_BETTING_DURATION == 3600
MAX_BETTING_DURATION == 365 * 86400
MIN_RESOLUTION_DELAY == 3600
MAX_RESOLUTION_DELAY == 30 * 86400
\* MarketValidator.MIN_BET_AMOUNT
MIN_BET_AMOUNT == 1000

\* PayoutCalculator constants
FEE_BASIS_POINTS == 200
BASIS_POINTS_DENOMINATOR == 10000

VARIABLES
  now,                  \* block.timestamp
  marketCount,          \* MarketBase.marketCount
  markets,              \* MarketBase.markets: id -> MarketLib.Market
  positions,            \* MarketBase.positions: <<id, user>> -> MarketLib.Position
  decryptionCompleted,  \* Resolvable.decryptionCompleted
  decryptedYesTotal,    \* Resolvable.decryptedYesTotal
  decryptedNoTotal,     \* Resolvable.decryptedNoTotal
  publiclyDecryptable,  \* handles marked by FHE.makePubliclyDecryptable
  balance,              \* token balances (plaintext of the encrypted balances)
  allowance,            \* token allowance of each bettor towards the market contract
  lastCall,             \* the call that has just reverted and its error, or NoCall
  received,             \* history: tokens moved from each bettor into each market
  paidOut,              \* history: tokens moved out to each bettor from each market
  betCount,             \* history: number of placeBet calls that went through
  calc,                 \* a payout calculation on its own: its inputs, then its result
  status,               \* the reentrancy guard's status
  frame,                \* the placeBet or claimWinnings call that is at its token call
  factory               \* storage of the BlindBetFactory contract

contractVars == <<marketCount, markets, positions, decryptionCompleted,
                  decryptedYesTotal, decryptedNoTotal, publiclyDecryptable>>
tokenVars == <<balance, allowance>>
historyVars == <<received, paidOut, betCount>>
guardVars == <<status, frame>>
vars == <<now, contractVars, tokenVars, lastCall, historyVars, calc, guardVars, factory>>

NoCall == [op |-> "none", err |-> "ok"]
NoCalc == [phase |-> "none"]
NoFrame == [op |-> "none"]

\* the reentrancy guard's two values
NOT_ENTERED == 1
ENTERED == 2

\* storage of a market id that was never written
EmptyMarket ==
  [state |-> Open, resolvedOutcome |-> NotSet, createdAt |-> 0,
   bettingDeadline |-> 0, resolutionTime |-> 0, creator |-> ZeroAddress,
   resolver |-> ZeroAddress, totalYesAmount |-> 0, totalNoAmount |-> 0,
   resolved |-> FALSE, totalsDecrypted |-> FALSE,
   decryptedYesAmount |-> 0, decryptedNoAmount |-> 0]

EmptyPosition == [yesAmount |-> 0, noAmount |-> 0, exists |-> FALSE, claimed |-> FALSE]

\* zeroed factory storage: no factory has been constructed
NoFactory ==
  [owner |-> ZeroAddress, implementation |-> ZeroAddress, tokenAddress |-> ZeroAddress,
   feeCollector |-> ZeroAddress, feeBasisPoints |-> 0,
   minBettingDuration |-> 0, maxBettingDuration |-> 0, minResolutionDelay |-> 0,
   marketCount |-> 0,
   markets |-> [id \in FactoryIds |-> ZeroAddress],
   marketIds |-> [a \in Addresses |-> 0],
   deployed |-> [a \in DeployedAddresses |-> [marketCount |-> 0, market |-> EmptyMarket]]]

MachineInit ==
  /\ now = 0
  /\ marketCount = 0
  /\ markets = [m \in MarketIds |-> EmptyMarket]
  /\ positions = [k \in MarketIds \X Bettors |-> EmptyPosition]
  /\ decryptionCompleted = [m \in MarketIds |-> FALSE]
  /\ decryptedYesTotal = [m \in MarketIds |-> 0]
  /\ decryptedNoTotal = [m \in MarketIds |-> 0]
  /\ publiclyDecryptable = {}
  /\ balance = [h \in Holders |->
                  CASE h = "alice" -> 1500 [] h = "bob" -> 2500 [] OTHER -> 0]
  /\ allowance = [u \in Bettors |->
                  CASE u = "alice" -> 700 [] OTHER -> 2500]
  /\ lastCall = NoCall
  /\ received = [k \in MarketIds \X Bettors |-> 0]
  /\ paidOut = [k \in MarketIds \X Bettors |-> 0]
  /\ betCount = 0
  /\ status = NOT_ENTERED
  /\ frame = NoFrame

Init == MachineInit /\ calc = NoCalc /\ factory = NoFactory

\* a call that reverts: nothing but the record of the call changes
Revert(op, err) ==
  /\ lastCall' = [op |-> op, err |-> err]
  /\ UNCHANGED <<now, contractVars, tokenVars, historyVars, calc, guardVars, factory>>

\* a call that goes through
Done(op) == lastCall' = NoCall /\ UNCHANGED <<calc, guardVars, factory>>

\* transactions are serialized: a call starts once the previous one has ended
Idle == lastCall = NoCall

\* the reverted transaction is discarded
Discard ==
  /\ lastCall # NoCall
  /\ lastCall' = NoCall
  /\ UNCHANGED <<now, contractVars, tokenVars, historyVars, calc, guardVars, factory>>

(***************************************************************************)
(* MarketBase modifiers and MarketLib state changes.                       *)
(***************************************************************************)
marketExists(m) == m < marketCount
onlyMarketState(m, s) == markets[m].state = s
onlyBeforeDeadline(m) == now < markets[m].bettingDeadline
onlyAfterDeadline(m) == now >= markets[m].bettingDeadline
onlyAfterResolutionTime(m) == now >= markets[m].resolutionTime
onlyResolved(m) == markets[m].state = Resolved
isAuthorizedResolver(m, who) == markets[m].resolver = who \/ who = "owner"

\* MarketLib.initializeMarket
initializeMarket(id, bettingDuration, resolutionDelay, creator, resolver) ==
  [EmptyMarket EXCEPT !.createdAt = now,
                      !.bettingDeadline = now + bettingDuration,
                      !.resolutionTime = now + bettingDuration + resolutionDelay,
                      !.creator = creator, !.resolver = resolver]

\* MarketLib.updatePosition: branchless accumulation on the selected side
updatePosition(pos, amount, outcome) ==
  [pos EXCEPT !.yesAmount = FHEselect(outcome, FHEadd(pos.yesAmount, amount), pos.yesAmount),
              !.noAmount = FHEselect(outcome, pos.noAmount, FHEadd(pos.noAmount, amount)),
              !.exists = TRUE]

\* MarketLib.updateMarketTotals
updateMarketTotals(mk, amount, outcome) ==
  [mk EXCEPT !.totalYesAmount = FHEselect(outcome, FHEadd(mk.totalYesAmount, amount), mk.totalYesAmount),
             !.totalNoAmount = FHEselect(outcome, mk.totalNoAmount, FHEadd(mk.totalNoAmount, amount))]

\* MarketLib.lockMarket
lockMarketLib(mk) == [mk EXCEPT !.state = Locked]

\* MarketLib.markResolved
markResolved(mk, outcome, totalYes, totalNo) ==
  [mk EXCEPT !.state = Resolved, !.resolved = TRUE, !.resolvedOutcome = outcome,
             !.totalsDecrypted = TRUE,
             !.decryptedYesAmount = totalYes, !.decryptedNoAmount = totalNo]

(***************************************************************************)
(* The confidential token (IConfidentialERC20): a transfer that the        *)
(* balance or the allowance does not cover moves nothing, or a clamped     *)
(* amount, without reverting.                                              *)
(***************************************************************************)
Min(a, b) == IF a <= b THEN a ELSE b

\* amounts transferFromEncrypted(from, market, amount) may move
TransferFromMoves(from, amount) ==
  IF amount <= balance[from] /\ amount <= allowance[from] THEN {amount}
  ELSE {0, Min(amount, Min(balance[from], allowance[from]))}

\* amounts transferEncrypted(to, amount), sent by the market contract, may move
TransferMoves(amount) ==
  IF amount <= balance[MarketAddr] THEN {amount}
  ELSE {0, Min(amount, balance[MarketAddr])}

(***************************************************************************)
(* Ciphertext handles and the KMS.  The handle of a pool total is named by *)
(* its market and side; ExternalHandle is a value of some other contract   *)
(* that is publicly decryptable.  The KMS signs (handles, cleartexts) only *)
(* for publicly decryptable handles and their true plaintexts.             *)
(***************************************************************************)
ExternalHandle == <<"ext", 0, "value">>
ExternalPlain == 7
PoolHandles == {"pool"} \X MarketIds \X {"yes", "no"}
Handles == PoolHandles \cup {ExternalHandle}

Plain(h) ==
  IF h = ExternalHandle THEN ExternalPlain
  ELSE IF h[3] = "yes" THEN markets[h[2]].totalYesAmount
  ELSE markets[h[2]].totalNoAmount

Decryptable == publiclyDecryptable \cup {ExternalHandle}
YesHandle(m) == <<"pool", m, "yes">>
NoHandle(m) == <<"pool", m, "no">>
OwnHandles(m) == <<YesHandle(m), NoHandle(m)>>
PlainOf(hl) == <<Plain(hl[1]), Plain(hl[2])>>

\* the decryption proofs that exist
KMSProofs ==
  {[handles |-> hl, cleartexts |-> PlainOf(hl)] : hl \in Decryptable \X Decryptable}
JunkProof == [handles |-> <<>>, cleartexts |-> <<>>]

\* the KMS proof for the market's own two handles
OwnProof(m) == [handles |-> OwnHandles(m), cleartexts |-> PlainOf(OwnHandles(m))]

\* FHE.checkSignatures(handlesList, cleartexts, decryptionProof)
checkSignatures(handlesList, cleartexts, proof) ==
  /\ proof \in KMSProofs
  /\ proof.handles = handlesList
  /\ proof.cleartexts = cleartexts

(***************************************************************************)
(* PayoutCalculator.                                                       *)
(***************************************************************************)
\* the checked plaintext arithmetic on the pool totals overflows (Panic)
WinningPayoutPanics(winningPool, losingPool) ==
  \/ U64AddOverflows(winningPool, losingPool)
  \/ U64MulOverflows(U64Add(winningPool, losingPool), ToU64(FEE_BASIS_POINTS))

\* fee and prize pool as _calculateWinningPayout computes them
feeAmountOf(totalPool) ==
  U64Div(U64Mul(totalPool, ToU64(FEE_BASIS_POINTS)), ToU64(BASIS_POINTS_DENOMINATOR))
prizePoolOf(totalPool) == U64Sub(totalPool, feeAmountOf(totalPool))

\* variant of WinningPayoutU64 that pays nothing when a pool is empty
WinningPayoutU64_emptyPoolPaysNothing(userPosition, winningPool, losingPool) ==
  IF winningPool = U64Zero \/ losingPool = U64Zero THEN U64Zero
  ELSE LET profit == U64Div(U64Mul(userPosition, losingPool), winningPool)
       IN U64Add(userPosition, profit)

\* _calculateWinningPayout on 64-bit values, past the totalsDecrypted check
WinningPayoutU64(userPosition, winningPool, losingPool) ==
  IF winningPool = U64Zero \/ losingPool = U64Zero THEN userPosition
  ELSE LET profit == U64Div(U64Mul(userPosition, losingPool), winningPool)
       IN U64Add(userPosition, profit)

\* PayoutCalculator._calculateWinningPayout: [err, payout]
calculateWinningPayout(userPosition, mk, isYesWinner) ==
  LET winningPool == IF isYesWinner THEN mk.decryptedYesAmount ELSE mk.decryptedNoAmount
      losingPool == IF isYesWinner THEN mk.decryptedNoAmount ELSE mk.decryptedYesAmount
  IN IF ~mk.totalsDecrypted THEN [err |-> "Totals not decrypted", payout |-> 0]
     ELSE IF winningPool # 0 /\ losingPool # 0
             /\ WinningPayoutPanics(ToU64(winningPool), ToU64(losingPool))
     THEN [err |-> "Panic", payout |-> 0]
     ELSE [err |-> "ok",
           payout |-> FromU64(WinningPayoutU64(ToU64(userPosition),
                                               ToU64(winningPool), ToU64(losingPool)))]

\* variant of calculatePayout that refunds only the Yes side of an Invalid market
calculatePayout_invalidRefundsYesOnly(pos, mk, outcome) ==
  IF outcome = Invalid THEN [err |-> "ok", payout |-> pos.yesAmount]
  ELSE IF outcome = Yes THEN calculateWinningPayout(pos.yesAmount, mk, TRUE)
  ELSE IF outcome = No THEN calculateWinningPayout(pos.noAmount, mk, FALSE)
  ELSE [err |-> "ok", payout |-> 0]

\* PayoutCalculator.calculatePayout: [err, payout]
calculatePayout(pos, mk, outcome) ==
  IF outcome = Invalid THEN [err |-> "ok", payout |-> FHEadd(pos.yesAmount, pos.noAmount)]
  ELSE IF outcome = Yes THEN calculateWinningPayout(pos.yesAmount, mk, TRUE)
  ELSE IF outcome = No THEN calculateWinningPayout(pos.noAmount, mk, FALSE)
  ELSE [err |-> "ok", payout |-> 0]

(***************************************************************************)
(* BlindBetMarket: one action per external function.                       *)
(***************************************************************************)
\* MarketBase._validateMarketParams with the MarketValidator limits
validateMarketParams(qlen, bettingDuration, resolutionDelay, resolver) ==
  IF qlen < MIN_QUESTION_LENGTH \/ qlen > MAX_QUESTION_LENGTH THEN "InvalidQuestion"
  ELSE IF bettingDuration < MIN_BETTING_DURATION \/ bettingDuration > MAX_BETTING_DURATION
  THEN "InvalidDuration"
  ELSE IF resolutionDelay < MIN_RESOLUTION_DELAY \/ resolutionDelay > MAX_RESOLUTION_DELAY
  THEN "InvalidDuration"
  ELSE IF resolver = ZeroAddress THEN "InvalidResolver"
  ELSE "ok"

\* variant of createMarket without _validateMarketParams
createMarket_noValidation(creator, qlen, bettingDuration, resolutionDelay, resolver) ==
  /\ Idle
  /\ marketCount' = marketCount + 1
  /\ markets' = [markets EXCEPT ![marketCount] =
       initializeMarket(marketCount, bettingDuration, resolutionDelay, creator, resolver)]
  /\ Done("createMarket")
  /\ UNCHANGED <<now, positions, decryptionCompleted, decryptedYesTotal,
                 decryptedNoTotal, publiclyDecryptable, tokenVars, historyVars>>

\* variant of createMarket that counts the resolution delay from the creation
createMarket_delayFromCreation(creator, qlen, bettingDuration, resolutionDelay, resolver) ==
  LET err == validateMarketParams(qlen, bettingDuration, resolutionDelay, resolver)
  IN /\ Idle
     /\ IF err # "ok" THEN Revert("createMarket", err)
        ELSE /\ marketCount' = marketCount + 1
             /\ markets' = [markets EXCEPT ![marketCount] =
                  [initializeMarket(marketCount, bettingDuration, resolutionDelay,
                                    creator, resolver)
                     EXCEPT !.resolutionTime = now + resolutionDelay]]
             /\ Done("createMarket")
             /\ UNCHANGED <<now, positions, decryptionCompleted, decryptedYesTotal,
                            decryptedNoTotal, publiclyDecryptable, tokenVars, historyVars>>

createMarket(creator, qlen, bettingDuration, resolutionDelay, resolver) ==
  LET err == validateMarketParams(qlen, bettingDuration, resolutionDelay, resolver)
  IN /\ Idle
     /\ IF err # "ok" THEN Revert("createMarket", err)
        ELSE /\ marketCount' = marketCount + 1
             /\ markets' = [markets EXCEPT ![marketCount] =
                  initializeMarket(marketCount, bettingDuration, resolutionDelay,
                                   creator, resolver)]
             /\ Done("createMarket")
             /\ UNCHANGED <<now, positions, decryptionCompleted, decryptedYesTotal,
                            decryptedNoTotal, publiclyDecryptable, tokenVars, historyVars>>

\* variant of placeBetError that does not look at the betting deadline
placeBetError_noDeadline(m, proofOk) ==
  IF ~marketExists(m) THEN "MarketNotFound"
  ELSE IF ~onlyMarketState(m, Open) THEN "InvalidState"
  ELSE IF ~proofOk THEN "InvalidInputProof"
  ELSE "ok"

\* variant of placeBetError that does not look at the market state
placeBetError_anyState(m, proofOk) ==
  IF ~marketExists(m) THEN "MarketNotFound"
  ELSE IF ~onlyBeforeDeadline(m) THEN "BettingDeadlinePassed"
  ELSE IF ~proofOk THEN "InvalidInputProof"
  ELSE "ok"

placeBetError(m, proofOk) ==
  IF ~marketExists(m) THEN "MarketNotFound"
  ELSE IF ~onlyMarketState(m, Open) THEN "InvalidState"
  ELSE IF ~onlyBeforeDeadline(m) THEN "BettingDeadlinePassed"
  ELSE IF ~proofOk THEN "InvalidInputProof"
  ELSE "ok"

\* variant of placeBet that credits the requested amount, not the balance delta
placeBet_creditsRequested(m, user, amount, outcome, proofOk) ==
  LET err == placeBetError(m, proofOk)
  IN /\ Idle
     /\ IF err # "ok" THEN Revert("placeBet", err)
        ELSE \E moved \in TransferFromMoves(user, amount) :
             /\ balance' = [balance EXCEPT ![user] = @ - moved,
                                           ![MarketAddr] = FHEadd(@, moved)]
             /\ allowance' = [allowance EXCEPT ![user] = @ - moved]
             /\ positions' = [positions EXCEPT ![<<m, user>>] =
                                updatePosition(@, amount, outcome)]
             /\ markets' = [markets EXCEPT ![m] = updateMarketTotals(@, amount, outcome)]
             /\ received' = [received EXCEPT ![<<m, user>>] = @ + moved]
             /\ betCount' = betCount + 1
             /\ Done("placeBet")
             /\ UNCHANGED <<now, marketCount, decryptionCompleted, decryptedYesTotal,
                            decryptedNoTotal, publiclyDecryptable, paidOut>>

\* variant of placeBet that stores the new stake in place of the old one
placeBet_overwrites(m, user, amount, outcome, proofOk) ==
  LET err == placeBetError(m, proofOk)
  IN /\ Idle
     /\ IF err # "ok" THEN Revert("placeBet", err)
        ELSE \E moved \in TransferFromMoves(user, amount) :
             /\ balance' = [balance EXCEPT ![user] = @ - moved,
                                           ![MarketAddr] = FHEadd(@, moved)]
             /\ allowance' = [allowance EXCEPT ![user] = @ - moved]
             /\ positions' = [positions EXCEPT ![<<m, user>>] =
                                updatePosition(EmptyPosition, moved, outcome)]
             /\ markets' = [markets EXCEPT ![m] = updateMarketTotals(@, moved, outcome)]
             /\ received' = [received EXCEPT ![<<m, user>>] = @ + moved]
             /\ betCount' = betCount + 1
             /\ Done("placeBet")
             /\ UNCHANGED <<now, marketCount, decryptionCompleted, decryptedYesTotal,
                            decryptedNoTotal, publiclyDecryptable, paidOut>>

\* variant of placeBet that credits the stake to both sides
placeBet_creditsBothSides(m, user, amount, outcome, proofOk) ==
  LET err == placeBetError(m, proofOk)
  IN /\ Idle
     /\ IF err # "ok" THEN Revert("placeBet", err)
        ELSE \E moved \in TransferFromMoves(user, amount) :
             /\ balance' = [balance EXCEPT ![user] = @ - moved,
                                           ![MarketAddr] = FHEadd(@, moved)]
             /\ allowance' = [allowance EXCEPT ![user] = @ - moved]
             /\ positions' = [positions EXCEPT ![<<m, user>>] =
                                updatePosition(updatePosition(@, moved, outcome), moved, ~outcome)]
             /\ markets' = [markets EXCEPT ![m] = updateMarketTotals(@, moved, outcome)]
             /\ received' = [received EXCEPT ![<<m, user>>] = @ + moved]
             /\ betCount' = betCount + 1
             /\ Done("placeBet")
             /\ UNCHANGED <<now, marketCount, decryptionCompleted, decryptedYesTotal,
                            decryptedNoTotal, publiclyDecryptable, paidOut>>

\* variant of placeBet that applies MarketValidator.validateBetAmount to the
\* amount in plaintext
placeBet_validatesPlainAmount(m, user, amount, outcome, proofOk) ==
  LET err == IF placeBetError(m, proofOk) # "ok" THEN placeBetError(m, proofOk)
             ELSE IF amount = 0 THEN "InvalidAmount"
             ELSE IF amount < MIN_BET_AMOUNT THEN "AmountTooSmall"
             ELSE "ok"
  IN /\ Idle
     /\ IF err # "ok" THEN Revert("placeBet", err)
        ELSE \E moved \in TransferFromMoves(user, amount) :
             /\ balance' = [balance EXCEPT ![user] = @ - moved,
                                           ![MarketAddr] = FHEadd(@, moved)]
             /\ allowance' = [allowance EXCEPT ![user] = @ - moved]
             /\ positions' = [positions EXCEPT ![<<m, user>>] =
                                updatePosition(@, moved, outcome)]
             /\ markets' = [markets EXCEPT ![m] = updateMarketTotals(@, moved, outcome)]
             /\ received' = [received EXCEPT ![<<m, user>>] = @ + moved]
             /\ betCount' = betCount + 1
             /\ Done("placeBet")
             /\ UNCHANGED <<now, marketCount, decryptionCompleted, decryptedYesTotal,
                            decryptedNoTotal, publiclyDecryptable, paidOut>>

\* variant of placeBet that adds the requested amount to the pool
placeBet_poolGetsRequested(m, user, amount, outcome, proofOk) ==
  LET err == placeBetError(m, proofOk)
  IN /\ Idle
     /\ IF err # "ok" THEN Revert("placeBet", err)
        ELSE \E moved \in TransferFromMoves(user, amount) :
             /\ balance' = [balance EXCEPT ![user] = @ - moved,
                                           ![MarketAddr] = FHEadd(@, moved)]
             /\ allowance' = [allowance EXCEPT ![user] = @ - moved]
             /\ positions' = [positions EXCEPT ![<<m, user>>] =
                                updatePosition(@, moved, outcome)]
             /\ markets' = [markets EXCEPT ![m] = updateMarketTotals(@, amount, outcome)]
             /\ received' = [received EXCEPT ![<<m, user>>] = @ + moved]
             /\ betCount' = betCount + 1
             /\ Done("placeBet")
             /\ UNCHANGED <<now, marketCount, decryptionCompleted, decryptedYesTotal,
                            decryptedNoTotal, publiclyDecryptable, paidOut>>

\* placeBet(marketId, encryptedAmount, encryptedOutcome, inputProof) by user
placeBet(m, user, amount, outcome, proofOk) ==
  LET err == placeBetError(m, proofOk)
  IN /\ Idle
     /\ IF err # "ok" THEN Revert("placeBet", err)
        ELSE \E moved \in TransferFromMoves(user, amount) :
             LET balanceBefore == balance[MarketAddr]
                 balanceAfter == FHEadd(balance[MarketAddr], moved)
                 actualAmount == FHEsub(balanceAfter, balanceBefore)
             IN /\ balance' = [balance EXCEPT ![user] = @ - moved,
                                              ![MarketAddr] = balanceAfter]
                /\ allowance' = [allowance EXCEPT ![user] = @ - moved]
                /\ positions' = [positions EXCEPT ![<<m, user>>] =
                                   updatePosition(@, actualAmount, outcome)]
                /\ markets' = [markets EXCEPT ![m] = updateMarketTotals(@, actualAmount, outcome)]
                /\ received' = [received EXCEPT ![<<m, user>>] = @ + moved]
                /\ betCount' = betCount + 1
                /\ Done("placeBet")
                /\ UNCHANGED <<now, marketCount, decryptionCompleted, decryptedYesTotal,
                               decryptedNoTotal, publiclyDecryptable, paidOut>>

\* variant of lockMarketError without the onlyAfterDeadline modifier
lockMarketError_noDeadline(m) ==
  IF ~marketExists(m) THEN "MarketNotFound"
  ELSE IF ~onlyMarketState(m, Open) THEN "InvalidState"
  ELSE "ok"

\* variant of lockMarketError that opens the lock only after the deadline
\* instant
lockMarketError_strictlyAfter(m) ==
  IF ~marketExists(m) THEN "MarketNotFound"
  ELSE IF ~onlyMarketState(m, Open) THEN "InvalidState"
  ELSE IF ~(now > markets[m].bettingDeadline) THEN "InvalidState"
  ELSE "ok"

lockMarketError(m) ==
  IF ~marketExists(m) THEN "MarketNotFound"
  ELSE IF ~onlyMarketState(m, Open) THEN "InvalidState"
  ELSE IF ~onlyAfterDeadline(m) THEN "InvalidState"
  ELSE "ok"

\* variant of lockMarket that locks every Open market
lockMarket_locksAll(m, caller) ==
  LET err == lockMarketError(m)
  IN /\ Idle
     /\ IF err # "ok" THEN Revert("lockMarket", err)
        ELSE /\ markets' = [o \in MarketIds |->
                              IF markets[o].state = Open THEN lockMarketLib(markets[o])
                              ELSE markets[o]]
             /\ Done("lockMarket")
             /\ UNCHANGED <<now, marketCount, positions, decryptionCompleted,
                            decryptedYesTotal, decryptedNoTotal, publiclyDecryptable,
                            tokenVars, historyVars>>

lockMarket(m, caller) ==
  LET err == lockMarketError(m)
  IN /\ Idle
     /\ IF err # "ok" THEN Revert("lockMarket", err)
        ELSE /\ markets' = [markets EXCEPT ![m] = lockMarketLib(@)]
             /\ Done("lockMarket")
             /\ UNCHANGED <<now, marketCount, positions, decryptionCompleted,
                            decryptedYesTotal, decryptedNoTotal, publiclyDecryptable,
                            tokenVars, historyVars>>

\* variant of requestResolutionError without the onlyResolver modifier
requestResolutionError_noAuth(m, caller) ==
  IF ~marketExists(m) THEN "MarketNotFound"
  ELSE IF ~onlyMarketState(m, Locked) THEN "InvalidState"
  ELSE IF ~onlyAfterResolutionTime(m) THEN "InvalidState"
  ELSE "ok"

requestResolutionError(m, caller) ==
  IF ~marketExists(m) THEN "MarketNotFound"
  ELSE IF ~onlyMarketState(m, Locked) THEN "InvalidState"
  ELSE IF ~onlyAfterResolutionTime(m) THEN "InvalidState"
  ELSE IF ~isAuthorizedResolver(m, caller) THEN "Unauthorized"
  ELSE "ok"

\* variant of requestResolution that marks the market Resolved at once
requestResolution_toResolved(m, caller) ==
  LET err == requestResolutionError(m, caller)
  IN /\ Idle
     /\ IF err # "ok" THEN Revert("requestResolution", err)
        ELSE /\ publiclyDecryptable' = publiclyDecryptable \cup {YesHandle(m), NoHandle(m)}
             /\ markets' = [markets EXCEPT ![m].state = Resolved]
             /\ Done("requestResolution")
             /\ UNCHANGED <<now, marketCount, positions, decryptionCompleted,
                            decryptedYesTotal, decryptedNoTotal, tokenVars, historyVars>>

requestResolution(m, caller) ==
  LET err == requestResolutionError(m, caller)
  IN /\ Idle
     /\ IF err # "ok" THEN Revert("requestResolution", err)
        ELSE /\ publiclyDecryptable' = publiclyDecryptable \cup {YesHandle(m), NoHandle(m)}
             /\ markets' = [markets EXCEPT ![m].state = Resolving]
             /\ Done("requestResolution")
             /\ UNCHANGED <<now, marketCount, positions, decryptionCompleted,
                            decryptedYesTotal, decryptedNoTotal, tokenVars, historyVars>>

\* variant of submitDecryptedTotalsError without the require on the state
submitDecryptedTotalsError_anyState(m, handlesList, cleartexts, proof) ==
  IF ~marketExists(m) THEN "MarketNotFound"
  ELSE IF ~checkSignatures(handlesList, cleartexts, proof) THEN "InvalidKMSSignatures"
  ELSE "ok"

\* variant of submitDecryptedTotalsError without FHE.checkSignatures
submitDecryptedTotalsError_noSignatures(m, handlesList, cleartexts, proof) ==
  IF ~marketExists(m) THEN "MarketNotFound"
  ELSE IF markets[m].state # Resolving THEN "Market not resolving"
  ELSE "ok"

submitDecryptedTotalsError(m, handlesList, cleartexts, proof) ==
  IF ~marketExists(m) THEN "MarketNotFound"
  ELSE IF markets[m].state # Resolving THEN "Market not resolving"
  ELSE IF ~checkSignatures(handlesList, cleartexts, proof) THEN "InvalidKMSSignatures"
  ELSE "ok"

\* variant: the totals are stored but the market is left in Resolving
submitDecryptedTotals_staysResolving(m, handlesList, cleartexts, proof) ==
  LET err == submitDecryptedTotalsError(m, handlesList, cleartexts, proof)
      totalYes == cleartexts[1]
      totalNo == cleartexts[2]
  IN /\ Idle
     /\ IF err # "ok" THEN Revert("submitDecryptedTotals", err)
        ELSE /\ decryptedYesTotal' = [decryptedYesTotal EXCEPT ![m] = totalYes]
             /\ decryptedNoTotal' = [decryptedNoTotal EXCEPT ![m] = totalNo]
             /\ decryptionCompleted' = [decryptionCompleted EXCEPT ![m] = TRUE]
             /\ markets' = [markets EXCEPT ![m].totalsDecrypted = TRUE,
                                           ![m].decryptedYesAmount = totalYes,
                                           ![m].decryptedNoAmount = totalNo]
             /\ Done("submitDecryptedTotals")
             /\ UNCHANGED <<now, marketCount, positions, publiclyDecryptable,
                            tokenVars, historyVars>>

submitDecryptedTotals(m, handlesList, cleartexts, proof) ==
  LET err == submitDecryptedTotalsError(m, handlesList, cleartexts, proof)
      totalYes == cleartexts[1]
      totalNo == cleartexts[2]
  IN /\ Idle
     /\ IF err # "ok" THEN Revert("submitDecryptedTotals", err)
        ELSE /\ decryptedYesTotal' = [decryptedYesTotal EXCEPT ![m] = totalYes]
             /\ decryptedNoTotal' = [decryptedNoTotal EXCEPT ![m] = totalNo]
             /\ decryptionCompleted' = [decryptionCompleted EXCEPT ![m] = TRUE]
             /\ markets' = [markets EXCEPT ![m] = markResolved(@, NotSet, totalYes, totalNo)]
             /\ Done("submitDecryptedTotals")
             /\ UNCHANGED <<now, marketCount, positions, publiclyDecryptable,
                            tokenVars, historyVars>>

\* variant of setResolutionError without the validation of the outcome
setResolutionError_acceptsNotSet(m, caller, outcome) ==
  IF ~marketExists(m) THEN "MarketNotFound"
  ELSE IF ~onlyResolved(m) THEN "MarketNotResolved"
  ELSE IF ~isAuthorizedResolver(m, caller) THEN "Unauthorized"
  ELSE "ok"

setResolutionError(m, caller, outcome) ==
  IF ~marketExists(m) THEN "MarketNotFound"
  ELSE IF ~onlyResolved(m) THEN "MarketNotResolved"
  ELSE IF ~isAuthorizedResolver(m, caller) THEN "Unauthorized"
  ELSE IF outcome \notin {Yes, No, Invalid} THEN "Invalid outcome"
  ELSE "ok"

setResolution(m, caller, outcome) ==
  LET err == setResolutionError(m, caller, outcome)
  IN /\ Idle
     /\ IF err # "ok" THEN Revert("setResolution", err)
        ELSE /\ markets' = [markets EXCEPT ![m].resolvedOutcome = outcome]
             /\ Done("setResolution")
             /\ UNCHANGED <<now, marketCount, positions, decryptionCompleted,
                            decryptedYesTotal, decryptedNoTotal, publiclyDecryptable,
                            tokenVars, historyVars>>

\* variant of claimWinningsError without the AlreadyClaimed check
claimWinningsError_noClaimedCheck(m, user) ==
  IF ~marketExists(m) THEN "MarketNotFound"
  ELSE IF ~onlyResolved(m) THEN "MarketNotResolved"
  ELSE calculatePayout(positions[<<m, user>>], markets[m], markets[m].resolvedOutcome).err

\* variant of claimWinningsError without the onlyResolved modifier
claimWinningsError_noResolvedCheck(m, user) ==
  IF ~marketExists(m) THEN "MarketNotFound"
  ELSE IF positions[<<m, user>>].claimed THEN "AlreadyClaimed"
  ELSE calculatePayout(positions[<<m, user>>], markets[m], markets[m].resolvedOutcome).err

claimWinningsError(m, user) ==
  IF ~marketExists(m) THEN "MarketNotFound"
  ELSE IF ~onlyResolved(m) THEN "MarketNotResolved"
  ELSE IF positions[<<m, user>>].claimed THEN "AlreadyClaimed"
  ELSE calculatePayout(positions[<<m, user>>], markets[m], markets[m].resolvedOutcome).err

\* claimWinnings(marketId) by user
claimWinnings(m, user) ==
  LET err == claimWinningsError(m, user)
      payout == calculatePayout(positions[<<m, user>>], markets[m],
                                markets[m].resolvedOutcome).payout
  IN /\ Idle
     /\ IF err # "ok" THEN Revert("claimWinnings", err)
        ELSE \E moved \in TransferMoves(payout) :
             /\ positions' = [positions EXCEPT ![<<m, user>>].claimed = TRUE]
             /\ balance' = [balance EXCEPT ![MarketAddr] = @ - moved, ![user] = @ + moved]
             /\ paidOut' = [paidOut EXCEPT ![<<m, user>>] = @ + moved]
             /\ Done("claimWinnings")
             /\ UNCHANGED <<now, marketCount, markets, decryptionCompleted,
                            decryptedYesTotal, decryptedNoTotal, publiclyDecryptable,
                            allowance, received, betCount>>

\* time passes between transactions
Tick(d) ==
  /\ Idle
  /\ now + d <= MaxTime
  /\ now' = now + d
  /\ UNCHANGED <<contractVars, tokenVars, lastCall, historyVars, calc, guardVars, factory>>

\* the submissions tried: handle lists that are the market's own, its own
\* swapped, another market's or foreign; cleartexts that are the true plaintexts
\* or altered; the KMS proof for that list, when there is one, or a forged proof
SubmittedHandles(m) ==
  {OwnHandles(m), <<NoHandle(m), YesHandle(m)>>, <<ExternalHandle, ExternalHandle>>}
    \cup {OwnHandles(o) : o \in MarketIds}

Submissions(m) ==
  UNION {
    UNION {
      {[handles |-> hl, cleartexts |-> ct, proof |-> pf] :
         pf \in {JunkProof} \cup {p \in KMSProofs : p.handles = hl}} :
      ct \in {PlainOf(hl), <<Plain(hl[1]) + 1, Plain(hl[2])>>}} :
    hl \in SubmittedHandles(m)}

(***************************************************************************)
(* The payout calculation on its own, on 64-bit inputs: stakes up to       *)
(* MAX_BET_AMOUNT and pool totals of which the stake is a part.            *)
(***************************************************************************)
TenTo10 == U64Mul(ToU64(100000), ToU64(100000))
MAX_BET_AMOUNT == U64Mul(ToU64(1000000), ToU64(1000000))
PayoutStakes == {U64Zero, ToU64(500), ToU64(1000), TenTo10, MAX_BET_AMOUNT}
PayoutPools ==
  {U64Zero, ToU64(1000), ToU64(1500), ToU64(2000), TenTo10, MAX_BET_AMOUNT, U64Max}

PayoutInit ==
  /\ MachineInit
  /\ factory = NoFactory
  /\ \E s \in PayoutStakes, l \in PayoutPools :
       \E w \in {p \in PayoutPools : ~U64Lt(p, s)} :
         calc = [phase |-> "in", userPosition |-> s, winningPool |-> w, losingPool |-> l]

\* PayoutCalculator._calculateWinningPayout(userPosition, market, isYesWinner)
\* on a market whose totals are decrypted
Calculate ==
  /\ calc.phase = "in"
  /\ LET panic == /\ calc.winningPool # U64Zero
                  /\ calc.losingPool # U64Zero
                  /\ WinningPayoutPanics(calc.winningPool, calc.losingPool)
     IN calc' = [phase |-> "out", userPosition |-> calc.userPosition,
                 winningPool |-> calc.winningPool, losingPool |-> calc.losingPool,
                 panic |-> panic,
                 payout |-> IF panic THEN U64Zero
                            ELSE WinningPayoutU64(calc.userPosition, calc.winningPool,
                                                  calc.losingPool)]
  /\ UNCHANGED <<now, contractVars, tokenVars, lastCall, historyVars, guardVars, factory>>

PayoutNext == Calculate

PayoutSpec == PayoutInit /\ [][PayoutNext]_vars

(***************************************************************************)
(* createMarket on its own: one call on the fresh contract, its arguments  *)
(* drawn around the limits of each parameter.                              *)
(***************************************************************************)
CreateQuestionLengths ==
  {0, MIN_QUESTION_LENGTH - 1, MIN_QUESTION_LENGTH, MAX_QUESTION_LENGTH,
   MAX_QUESTION_LENGTH + 1}
CreateBettingDurations ==
  {MIN_BETTING_DURATION - 1, MIN_BETTING_DURATION, MAX_BETTING_DURATION,
   MAX_BETTING_DURATION + 1}
CreateResolutionDelays ==
  {MIN_RESOLUTION_DELAY - 1, MIN_RESOLUTION_DELAY, MAX_RESOLUTION_DELAY,
   MAX_RESOLUTION_DELAY + 1}

CreateInit ==
  /\ MachineInit
  /\ factory = NoFactory
  /\ calc \in [phase : {"create"}, qlen : CreateQuestionLengths,
                bettingDuration : CreateBettingDurations,
                resolutionDelay : CreateResolutionDelays,
                resolver : {ZeroAddress, "resolver"}]

\* createMarket(question, bettingDuration, resolutionDelay, resolver, ...) by alice
CreateCall ==
  /\ calc.phase = "create"
  /\ marketCount = 0
  /\ createMarket("alice", calc.qlen, calc.bettingDuration, calc.resolutionDelay,
                  calc.resolver)

CreateNext == CreateCall

CreateSpec == CreateInit /\ [][CreateNext]_vars

(***************************************************************************)
(* Two markets side by side: both created with the shortest durations, one *)
(* bettor, one resolver, and the submissions of a market's own totals or   *)
(* of the other market's.                                                  *)
(***************************************************************************)
\* a value of another contract, decrypted by the KMS, submitted as both totals
ExternalSubmission ==
  LET hl == <<ExternalHandle, ExternalHandle>>
  IN [handles |-> hl, cleartexts |-> PlainOf(hl),
      proof |-> [handles |-> hl, cleartexts |-> PlainOf(hl)]]

TwoSubmissions(m) ==
  {[handles |-> OwnHandles(o), cleartexts |-> PlainOf(OwnHandles(o)), proof |-> OwnProof(o)] :
     o \in MarketIds} \cup {ExternalSubmission}

TwoNext ==
  \/ Discard
  \/ \E d \in TickSteps : Tick(d)
  \/ /\ marketCount < TwoMarkets
     /\ createMarket("alice", MIN_QUESTION_LENGTH, MIN_BETTING_DURATION,
                     MIN_RESOLUTION_DELAY, "resolver")
  \/ /\ betCount < MaxBets
     /\ \E m \in MarketIds, o \in BOOLEAN : placeBet(m, "bob", 500, o, TRUE)
  \/ \E m \in MarketIds : lockMarket(m, "bob")
  \/ \E m \in MarketIds : requestResolution(m, "resolver")
  \/ \E m \in MarketIds : \E s \in TwoSubmissions(m) :
        submitDecryptedTotals(m, s.handles, s.cleartexts, s.proof)
  \/ \E m \in MarketIds, o \in {Yes, Invalid} : setResolution(m, "resolver", o)
  \/ \E m \in MarketIds : claimWinnings(m, "bob")

TwoSpec == Init /\ [][TwoNext]_vars

(***************************************************************************)
(* BlindBetFactory: the owner's configuration and the registry of the      *)
(* markets it has deployed.  Its MIN_BETTING_DURATION, MAX_BETTING_DURATION *)
(* and MIN_RESOLUTION_DELAY have the values of the MarketValidator limits  *)
(* of the same names.                                                      *)
(***************************************************************************)
MAX_FEE_BASIS_POINTS == 1000
FactoryAddr == "factory"
FactoryCallers == {"owner", "alice"}
FeeInputs == {0, 200, MAX_FEE_BASIS_POINTS, MAX_FEE_BASIS_POINTS + 1}
CollectorInputs == {ZeroAddress, "collector", "alice"}
ImplementationInputs == {ZeroAddress, "impl"}
DeployQuestionLengths == {0, MIN_QUESTION_LENGTH - 1, MIN_QUESTION_LENGTH}

\* the checks of the constructor
constructorError(_tokenAddress, _feeCollector, _feeBasisPoints) ==
  IF _tokenAddress = ZeroAddress THEN "InvalidImplementation"
  ELSE IF _feeCollector = ZeroAddress THEN "InvalidFeeCollector"
  ELSE IF _feeBasisPoints > MAX_FEE_BASIS_POINTS THEN "InvalidFeeBasisPoints"
  ELSE "ok"

\* the storage the constructor leaves, msg.sender being the owner
constructed(deployer, _tokenAddress, _feeCollector, _feeBasisPoints) ==
  [NoFactory EXCEPT !.owner = deployer,
                    !.tokenAddress = _tokenAddress,
                    !.feeCollector = _feeCollector,
                    !.feeBasisPoints = _feeBasisPoints,
                    !.minBettingDuration = MIN_BETTING_DURATION,
                    !.maxBettingDuration = MAX_BETTING_DURATION,
                    !.minResolutionDelay = MIN_RESOLUTION_DELAY]

\* a call to the factory that goes through and leaves the storage f
FactoryDone(f) ==
  /\ factory' = f
  /\ lastCall' = NoCall
  /\ UNCHANGED <<now, contractVars, tokenVars, historyVars, calc, guardVars>>

\* Ownable.onlyOwner
onlyOwner(caller) == caller = factory.owner

\* BlindBetFactory._validateMarketParams(params)
factoryValidateMarketParams(qlen, bettingDuration, resolutionDelay, resolver) ==
  IF qlen = 0 THEN "InvalidQuestion"
  ELSE IF bettingDuration < factory.minBettingDuration
          \/ bettingDuration > factory.maxBettingDuration THEN "InvalidDuration"
  ELSE IF resolutionDelay < factory.minResolutionDelay THEN "InvalidDuration"
  ELSE IF resolver = ZeroAddress THEN "InvalidResolver"
  ELSE "ok"

\* deployMarket(params) by caller: a new BlindBetMarket contract, registered
\* under the next id, on which the factory calls createMarket
deployMarket(caller, qlen, bettingDuration, resolutionDelay, resolver) ==
  LET err == factoryValidateMarketParams(qlen, bettingDuration, resolutionDelay, resolver)
      inner == validateMarketParams(qlen, bettingDuration, resolutionDelay, resolver)
      marketId == factory.marketCount
      marketAddress == DeployedAddress[marketId + 1]
  IN /\ Idle
     /\ factory.marketCount < MaxDeploys
     /\ IF err # "ok" THEN Revert("deployMarket", err)
        ELSE IF inner # "ok" THEN Revert("deployMarket", inner)
        ELSE FactoryDone([factory EXCEPT
               !.marketCount = @ + 1,
               !.markets[marketId] = marketAddress,
               !.marketIds[marketAddress] = marketId,
               !.deployed[marketAddress] =
                  [marketCount |-> 1,
                   market |-> initializeMarket(0, bettingDuration, resolutionDelay,
                                               FactoryAddr, resolver)]])

\* getMarketAddress(marketId): a view
getMarketAddress(marketId) ==
  LET marketAddress == factory.markets[marketId]
  IN IF marketAddress = ZeroAddress
     THEN [err |-> "MarketNotFound", value |-> ZeroAddress]
     ELSE [err |-> "ok", value |-> marketAddress]

\* getMarketId(marketAddress): a view
getMarketId(marketAddress) ==
  LET marketId == factory.marketIds[marketAddress]
  IN IF factory.markets[marketId] # marketAddress
     THEN [err |-> "MarketNotFound", value |-> 0]
     ELSE [err |-> "ok", value |-> marketId]

updateImplementationError(caller, newImplementation) ==
  IF ~onlyOwner(caller) THEN "OwnableUnauthorizedAccount"
  ELSE IF newImplementation = ZeroAddress THEN "InvalidImplementation"
  ELSE "ok"

\* updateImplementation(newImplementation) by caller
updateImplementation(caller, newImplementation) ==
  LET err == updateImplementationError(caller, newImplementation)
  IN /\ Idle
     /\ IF err # "ok" THEN Revert("updateImplementation", err)
        ELSE FactoryDone([factory EXCEPT !.implementation = newImplementation])

\* variant of updateFeeError without the bound on the fee
updateFeeError_noMaximum(caller, newFeeBps) ==
  IF ~onlyOwner(caller) THEN "OwnableUnauthorizedAccount"
  ELSE "ok"

updateFeeError(caller, newFeeBps) ==
  IF ~onlyOwner(caller) THEN "OwnableUnauthorizedAccount"
  ELSE IF newFeeBps > MAX_FEE_BASIS_POINTS THEN "InvalidFeeBasisPoints"
  ELSE "ok"

\* updateFee(newFeeBps) by caller
updateFee(caller, newFeeBps) ==
  LET err == updateFeeError(caller, newFeeBps)
  IN /\ Idle
     /\ IF err # "ok" THEN Revert("updateFee", err)
        ELSE FactoryDone([factory EXCEPT !.feeBasisPoints = newFeeBps])

updateFeeCollectorError(caller, newCollector) ==
  IF ~onlyOwner(caller) THEN "OwnableUnauthorizedAccount"
  ELSE IF newCollector = ZeroAddress THEN "InvalidFeeCollector"
  ELSE "ok"

\* updateFeeCollector(newCollector) by caller
updateFeeCollector(caller, newCollector) ==
  LET err == updateFeeCollectorError(caller, newCollector)
  IN /\ Idle
     /\ IF err # "ok" THEN Revert("updateFeeCollector", err)
        ELSE FactoryDone([factory EXCEPT !.feeCollector = newCollector])

\* Ownable.transferOwnership(newOwner) by caller, inherited by the factory
transferOwnership(caller, newOwner) ==
  LET err == IF ~onlyOwner(caller) THEN "OwnableUnauthorizedAccount"
             ELSE IF newOwner = ZeroAddress THEN "OwnableInvalidOwner"
             ELSE "ok"
  IN /\ Idle
     /\ IF err # "ok" THEN Revert("transferOwnership", err)
        ELSE FactoryDone([factory EXCEPT !.owner = newOwner])

\* Ownable.renounceOwnership() by caller, inherited by the factory
renounceOwnership(caller) ==
  /\ Idle
  /\ IF ~onlyOwner(caller) THEN Revert("renounceOwnership", "OwnableUnauthorizedAccount")
     ELSE FactoryDone([factory EXCEPT !.owner = ZeroAddress])

\* the factory as its constructor leaves it, for the arguments it accepts
FactoryInit ==
  /\ MachineInit
  /\ calc = NoCalc
  /\ \E t \in {ZeroAddress, "token"}, c \in CollectorInputs, f \in FeeInputs :
       /\ constructorError(t, c, f) = "ok"
       /\ factory = constructed("owner", t, c, f)

FactoryNext ==
  \/ Discard
  \/ \E c \in FactoryCallers, q \in DeployQuestionLengths,
        d \in Durations, r \in {ZeroAddress, "resolver"} :
       deployMarket(c, q, d, MIN_RESOLUTION_DELAY, r)
  \/ \E c \in FactoryCallers, i \in ImplementationInputs : updateImplementation(c, i)
  \/ \E c \in FactoryCallers, f \in FeeInputs : updateFee(c, f)
  \/ \E c \in FactoryCallers, a \in CollectorInputs : updateFeeCollector(c, a)
  \/ \E c \in FactoryCallers, n \in {ZeroAddress, "alice"} : transferOwnership(c, n)
  \/ \E c \in FactoryCallers : renounceOwnership(c)

FactorySpec == FactoryInit /\ [][FactoryNext]_vars

(***************************************************************************)
(* placeBet and claimWinnings step by step: the call up to its token       *)
(* transfer, the calls the token makes back into the contract while the    *)
(* transfer runs, and the rest of the call.  frame holds the call that is  *)
(* at its transfer; status is the guard of the nonReentrant modifier.      *)
(***************************************************************************)
ReentrantCall == "ReentrancyGuardReentrantCall"

\* variant of placeBetEntryError without nonReentrant
placeBetEntryError_noGuard(m, proofOk) == placeBetError(m, proofOk)

\* placeBet: nonReentrant, then the other modifiers and the input proof
placeBetEntryError(m, proofOk) ==
  IF status = ENTERED THEN ReentrantCall ELSE placeBetError(m, proofOk)

\* claimWinnings: nonReentrant, then the other modifiers and checks
claimWinningsEntryError(m, user) ==
  IF status = ENTERED THEN ReentrantCall ELSE claimWinningsError(m, user)

\* placeBet from the token transfer on: the transfer moves `moved`, and the
\* balance delta since balanceBefore is credited to the position and the pool
betCredit(m, user, moved, outcome, balanceBefore) ==
  LET balanceAfter == FHEadd(balance[MarketAddr], moved)
      actualAmount == FHEsub(balanceAfter, balanceBefore)
  IN /\ balance' = [balance EXCEPT ![user] = @ - moved, ![MarketAddr] = balanceAfter]
     /\ allowance' = [allowance EXCEPT ![user] = @ - moved]
     /\ positions' = [positions EXCEPT ![<<m, user>>] =
                        updatePosition(@, actualAmount, outcome)]
     /\ markets' = [markets EXCEPT ![m] = updateMarketTotals(@, actualAmount, outcome)]
     /\ received' = [received EXCEPT ![<<m, user>>] = @ + moved]
     /\ betCount' = betCount + 1

\* placeBet by user, up to its call of token.transferFromEncrypted
beginPlaceBet(m, user, amount, outcome) ==
  LET err == placeBetEntryError(m, TRUE)
  IN /\ Idle
     /\ frame = NoFrame
     /\ IF err # "ok" THEN Revert("placeBet", err)
        ELSE /\ status' = ENTERED
             /\ frame' = [op |-> "placeBet", marketId |-> m, user |-> user,
                          amount |-> amount, outcome |-> outcome,
                          balanceBefore |-> balance[MarketAddr], nested |-> NoCall]
             /\ UNCHANGED <<now, contractVars, tokenVars, lastCall, historyVars, calc,
                            factory>>

\* the token, inside transferFromEncrypted or transferEncrypted, calls placeBet
nestedPlaceBet(m, user, amount, outcome) ==
  LET err == placeBetEntryError(m, TRUE)
  IN /\ Idle
     /\ frame # NoFrame
     /\ frame.nested = NoCall
     /\ frame' = [frame EXCEPT !.nested = [op |-> "placeBet", err |-> err]]
     /\ IF err # "ok"
        THEN UNCHANGED <<now, contractVars, tokenVars, lastCall, historyVars, calc,
                         status, factory>>
        ELSE /\ \E moved \in TransferFromMoves(user, amount) :
                  betCredit(m, user, moved, outcome, balance[MarketAddr])
             /\ UNCHANGED <<now, marketCount, decryptionCompleted, decryptedYesTotal,
                            decryptedNoTotal, publiclyDecryptable, paidOut, lastCall,
                            calc, status, factory>>

\* placeBet from the return of the token transfer to its end
endPlaceBet ==
  /\ Idle
  /\ frame # NoFrame
  /\ frame.op = "placeBet"
  /\ \E moved \in TransferFromMoves(frame.user, frame.amount) :
       betCredit(frame.marketId, frame.user, moved, frame.outcome, frame.balanceBefore)
  /\ status' = NOT_ENTERED
  /\ frame' = NoFrame
  /\ UNCHANGED <<now, marketCount, decryptionCompleted, decryptedYesTotal,
                 decryptedNoTotal, publiclyDecryptable, paidOut, lastCall, calc, factory>>

\* variant of beginClaim that leaves the claimed flag for after the transfer
beginClaim_transfersFirst(m, user) ==
  LET err == claimWinningsEntryError(m, user)
  IN /\ Idle
     /\ frame = NoFrame
     /\ IF err # "ok" THEN Revert("claimWinnings", err)
        ELSE /\ status' = ENTERED
             /\ frame' = [op |-> "claimWinnings", marketId |-> m, user |-> user,
                          payout |-> calculatePayout(positions[<<m, user>>], markets[m],
                                                     markets[m].resolvedOutcome).payout,
                          nested |-> NoCall]
             /\ UNCHANGED <<now, contractVars, tokenVars, lastCall, historyVars, calc,
                            factory>>

\* claimWinnings by user, up to its call of token.transferEncrypted: the
\* position is marked claimed and the payout is computed
beginClaim(m, user) ==
  LET err == claimWinningsEntryError(m, user)
  IN /\ Idle
     /\ frame = NoFrame
     /\ IF err # "ok" THEN Revert("claimWinnings", err)
        ELSE /\ status' = ENTERED
             /\ positions' = [positions EXCEPT ![<<m, user>>].claimed = TRUE]
             /\ frame' = [op |-> "claimWinnings", marketId |-> m, user |-> user,
                          payout |-> calculatePayout(positions[<<m, user>>], markets[m],
                                                     markets[m].resolvedOutcome).payout,
                          nested |-> NoCall]
             /\ UNCHANGED <<now, marketCount, markets, decryptionCompleted,
                            decryptedYesTotal, decryptedNoTotal, publiclyDecryptable,
                            tokenVars, lastCall, historyVars, calc, factory>>

\* the token, inside transferFromEncrypted or transferEncrypted, calls
\* claimWinnings
nestedClaim(m, user) ==
  LET err == claimWinningsEntryError(m, user)
      payout == calculatePayout(positions[<<m, user>>], markets[m],
                                markets[m].resolvedOutcome).payout
  IN /\ Idle
     /\ frame # NoFrame
     /\ frame.nested = NoCall
     /\ frame' = [frame EXCEPT !.nested = [op |-> "claimWinnings", err |-> err]]
     /\ IF err # "ok"
        THEN UNCHANGED <<now, contractVars, tokenVars, lastCall, historyVars, calc,
                         status, factory>>
        ELSE /\ \E moved \in TransferMoves(payout) :
                  /\ balance' = [balance EXCEPT ![MarketAddr] = @ - moved,
                                                ![user] = @ + moved]
                  /\ paidOut' = [paidOut EXCEPT ![<<m, user>>] = @ + moved]
             /\ positions' = [positions EXCEPT ![<<m, user>>].claimed = TRUE]
             /\ UNCHANGED <<now, marketCount, markets, decryptionCompleted,
                            decryptedYesTotal, decryptedNoTotal, publiclyDecryptable,
                            allowance, received, betCount, lastCall, calc, status,
                            factory>>

\* claimWinnings from the return of the token transfer to its end
endClaim ==
  /\ Idle
  /\ frame # NoFrame
  /\ frame.op = "claimWinnings"
  /\ \E moved \in TransferMoves(frame.payout) :
       /\ balance' = [balance EXCEPT ![MarketAddr] = @ - moved, ![frame.user] = @ + moved]
       /\ paidOut' = [paidOut EXCEPT ![<<frame.marketId, frame.user>>] = @ + moved]
  /\ status' = NOT_ENTERED
  /\ frame' = NoFrame
  /\ UNCHANGED <<now, contractVars, allowance, received, betCount, lastCall, calc,
                 factory>>

\* one market, one bettor; the functions without nonReentrant may also be
\* called by the token while a transfer runs; time passes between transactions
ReentryNext ==
  \/ Discard
  \/ frame = NoFrame /\ \E d \in TickSteps : Tick(d)
  \/ /\ marketCount < MaxMarkets
     /\ createMarket("alice", MIN_QUESTION_LENGTH, MIN_BETTING_DURATION,
                     MIN_RESOLUTION_DELAY, "resolver")
  \/ /\ betCount < MaxBets
     /\ \E m \in MarketIds, o \in BOOLEAN : beginPlaceBet(m, "bob", 500, o)
  \/ \E m \in MarketIds, o \in BOOLEAN : nestedPlaceBet(m, "bob", 500, o)
  \/ endPlaceBet
  \/ \E m \in MarketIds : lockMarket(m, "bob")
  \/ \E m \in MarketIds : requestResolution(m, "resolver")
  \/ \E m \in MarketIds :
        submitDecryptedTotals(m, OwnHandles(m), PlainOf(OwnHandles(m)), OwnProof(m))
  \/ \E m \in MarketIds, o \in {Yes, No} : setResolution(m, "resolver", o)
  \/ \E m \in MarketIds : beginClaim(m, "bob")
  \/ \E m \in MarketIds : nestedClaim(m, "bob")
  \/ endClaim

ReentrySpec == Init /\ [][ReentryNext]_vars

(***************************************************************************)
(* placeBet under different secrets: the bettors' balances and allowances  *)
(* are drawn at the start, and the amounts include zero and an amount      *)
(* above every balance.                                                    *)
(***************************************************************************)
SecretAmounts == {0, 500, 3000}
SecretBalances == {0, 1500}
SecretAllowances == {0, 700, 5000}

SecretInit ==
  /\ now = 0
  /\ marketCount = 0
  /\ markets = [m \in MarketIds |-> EmptyMarket]
  /\ positions = [k \in MarketIds \X Bettors |-> EmptyPosition]
  /\ decryptionCompleted = [m \in MarketIds |-> FALSE]
  /\ decryptedYesTotal = [m \in MarketIds |-> 0]
  /\ decryptedNoTotal = [m \in MarketIds |-> 0]
  /\ publiclyDecryptable = {}
  /\ \E b \in SecretBalances, a \in SecretAllowances :
       /\ balance = [h \in Holders |->
                       CASE h = "alice" -> b [] h = "bob" -> 2500 [] OTHER -> 0]
       /\ allowance = [u \in Bettors |-> CASE u = "alice" -> a [] OTHER -> 2500]
  /\ lastCall = NoCall
  /\ received = [k \in MarketIds \X Bettors |-> 0]
  /\ paidOut = [k \in MarketIds \X Bettors |-> 0]
  /\ betCount = 0
  /\ status = NOT_ENTERED
  /\ frame = NoFrame
  /\ calc = NoCalc
  /\ factory = NoFactory

SecretNext ==
  \/ Discard
  \/ \E d \in TickSteps : Tick(d)
  \/ /\ marketCount < MaxMarkets
     /\ createMarket("alice", MIN_QUESTION_LENGTH, MIN_BETTING_DURATION,
                     MIN_RESOLUTION_DELAY, "resolver")
  \/ /\ betCount < MaxBets
     /\ \E m \in MarketIds, u \in Bettors, a \in SecretAmounts, o \in BOOLEAN,
           ok \in BOOLEAN : placeBet(m, u, a, o, ok)
  \/ \E m \in MarketIds : lockMarket(m, "bob")

SecretSpec == SecretInit /\ [][SecretNext]_vars

\* ---------------------------------------------------------------------------
\* The life of a market under cooperating callers (BlindBetMarket.sol:146-296).
\* A reverted transaction changes nothing in the contract, so only the mined
\* calls of Next are steps here, by any caller and in any order; a market is
\* created only while its betting deadline and resolution time lie within the
\* modelled time.
Mined == lastCall' = NoCall

CreatedIds == 0..(MaxMarkets - 1)

LiveNext ==
  \/ \E d \in TickSteps : Tick(d)
  \/ /\ marketCount < MaxMarkets
     /\ now + MIN_BETTING_DURATION + MIN_RESOLUTION_DELAY <= MaxTime
     /\ \E q \in QuestionLengths, bd \in Durations, rd \in Durations,
           r \in {ZeroAddress, "resolver"} : createMarket("alice", q, bd, rd, r) /\ Mined
  \/ /\ betCount < MaxBets
     /\ \E m \in MarketIds, u \in Bettors, a \in BetAmounts, o \in BOOLEAN,
           ok \in BOOLEAN : placeBet(m, u, a, o, ok) /\ Mined
  \/ \E m \in MarketIds, c \in Users : lockMarket(m, c) /\ Mined
  \/ \E m \in MarketIds, c \in Users \ {"bob"} : requestResolution(m, c) /\ Mined
  \/ \E m \in MarketIds : \E s \in Submissions(m) :
        submitDecryptedTotals(m, s.handles, s.cleartexts, s.proof) /\ Mined
  \/ \E m \in MarketIds, c \in Users \ {"bob"}, o \in Outcomes :
        setResolution(m, c, o) /\ Mined
  \/ \E m \in MarketIds, u \in Bettors : claimWinnings(m, u) /\ Mined

\* the next-phase operations of market m, invoked by the callers permitted to
LockStep(m) == \E c \in Users : lockMarket(m, c) /\ Mined
RequestStep(m) == requestResolution(m, markets[m].resolver) /\ Mined
ProofStep(m) ==
  /\ submitDecryptedTotals(m, OwnHandles(m), PlainOf(OwnHandles(m)),
                           [handles |-> OwnHandles(m), cleartexts |-> PlainOf(OwnHandles(m))])
  /\ Mined
OutcomeStep(m) ==
  /\ markets[m].resolvedOutcome = NotSet
  /\ \E o \in Outcomes : setResolution(m, markets[m].resolver, o) /\ Mined
ClaimStep(m, u) ==
  /\ positions[<<m, u>>].exists
  /\ ~positions[<<m, u>>].claimed
  /\ claimWinnings(m, u)
  /\ Mined

\* ENABLED <<ClaimStep(m, u)>>_vars written out: the claim would not revert
ClaimPossible(m, u) ==
  /\ Idle
  /\ positions[<<m, u>>].exists
  /\ claimWinningsError(m, u) = "ok"

\* the clock and the permitted callers are fair: an operation that stays
\* possible is eventually mined (weak fairness; for the claims it is stated
\* through ClaimPossible)
LiveFairness ==
  /\ WF_vars(\E d \in TickSteps : Tick(d))
  /\ \A m \in CreatedIds :
       /\ WF_vars(LockStep(m))
       /\ WF_vars(RequestStep(m))
       /\ WF_vars(ProofStep(m))
       /\ WF_vars(OutcomeStep(m))
       /\ \A u \in Bettors :
            []<>(~ClaimPossible(m, u)) \/ []<><<ClaimStep(m, u)>>_vars

LiveSpec == Init /\ [][LiveNext]_vars /\ LiveFairness

\* ---------------------------------------------------------------------------
\* FHEMath (libraries/FHEMath.sol): safe arithmetic on euint64 values, given
\* here by their plaintexts; an ebool is its plaintext boolean.
FHElt(a, b) == U64Lt(a, b)

\* variant: the sum is returned whether or not it wrapped
safeAdd_keepsSum(a, b) ==
  LET sum == U64Add(a, b)
      hasOverflow == FHElt(sum, a)
  IN [result |-> sum, flag |-> hasOverflow]

\* FHEMath.safeAdd(a, b): (result, hasOverflow)
safeAdd(a, b) ==
  LET sum == U64Add(a, b)
      hasOverflow == FHElt(sum, a)
  IN [result |-> FHEselect(hasOverflow, a, sum), flag |-> hasOverflow]

\* FHEMath.safeSub(a, b): (result, hasUnderflow)
safeSub(a, b) ==
  LET hasUnderflow == FHElt(a, b)
      diff == U64Sub(a, b)
  IN [result |-> FHEselect(hasUnderflow, U64Zero, diff), flag |-> hasUnderflow]

\* FHEMath.safeMul(a, b): (result, hasOverflow)
safeMul(a, b) == [result |-> U64Mul(a, b), flag |-> FALSE]

\* the operands tried: 0, 1, 2, 2^32 - 1, 2^32, 2^32 + 1, 2^63, 2^64 - 2, 2^64 - 1
TwoTo32 == [i \in Limbs |-> IF i = 5 THEN 1 ELSE 0]
TwoTo63 == [i \in Limbs |-> IF i = NumLimbs THEN LimbBase \div 2 ELSE 0]
MathValues ==
  {U64Zero, ToU64(1), ToU64(2), U64Sub(TwoTo32, ToU64(1)), TwoTo32,
   U64Add(TwoTo32, ToU64(1)), TwoTo63, U64Sub(U64Max, ToU64(1)), U64Max}

MathInit ==
  /\ MachineInit
  /\ factory = NoFactory
  /\ \E a \in MathValues, b \in MathValues : calc = [phase |-> "in", a |-> a, b |-> b]

Returned(op, r) ==
  /\ calc.phase = "in"
  /\ calc' = [phase |-> "out", op |-> op, a |-> calc.a, b |-> calc.b,
              result |-> r.result, flag |-> r.flag]
  /\ UNCHANGED <<now, contractVars, tokenVars, lastCall, historyVars, guardVars, factory>>

CallSafeAdd == Returned("safeAdd", safeAdd(calc.a, calc.b))
CallSafeSub == Returned("safeSub", safeSub(calc.a, calc.b))
CallSafeMul == Returned("safeMul", safeMul(calc.a, calc.b))

MathNext == CallSafeAdd \/ CallSafeSub \/ CallSafeMul

MathSpec == MathInit /\ [][MathNext]_vars

\* ---------------------------------------------------------------------------
\* ErrorHandler (libraries/ErrorHandler.sol): the last error of each user. An
\* euint8 error code is given by its plaintext; the mapping the library is
\* handed is calc.errors, and calc.last names the latest call.
NO_ERROR == 0
INSUFFICIENT_BALANCE == 1
ALREADY_CLAIMED == 6
ErrorCodeInputs == {NO_ERROR, INSUFFICIENT_BALANCE, ALREADY_CLAIMED}

\* an entry of the mapping never written
NoLastError == [error |-> NO_ERROR, timestamp |-> 0]

\* ErrorHandler.setError(errors, user, errorCode)
setError(errors, user, errorCode) ==
  [errors EXCEPT ![user] = [error |-> errorCode, timestamp |-> now]]

\* ErrorHandler.clearError(errors, user, noErrorCode)
clearError(errors, user, noErrorCode) == setError(errors, user, noErrorCode)

\* ErrorHandler.hasError(errors, user)
hasError(errors, user) == errors[user].timestamp > 0

ErrorInit ==
  /\ MachineInit
  /\ factory = NoFactory
  /\ calc = [phase |-> "errors", errors |-> [u \in Bettors |-> NoLastError],
             last |-> [op |-> "none", user |-> ZeroAddress]]

\* a call made in a block; block.timestamp is positive
ErrorCall(op, user, errors) ==
  /\ calc.phase = "errors"
  /\ now > 0
  /\ calc' = [calc EXCEPT !.errors = errors, !.last = [op |-> op, user |-> user]]
  /\ UNCHANGED <<now, contractVars, tokenVars, lastCall, historyVars, guardVars, factory>>

CallSetError(user, errorCode) ==
  ErrorCall("setError", user, setError(calc.errors, user, errorCode))
CallClearError(user) ==
  ErrorCall("clearError", user, clearError(calc.errors, user, NO_ERROR))

ErrorNext ==
  \/ \E d \in TickSteps : Tick(d)
  \/ \E u \in Bettors, e \in ErrorCodeInputs : CallSetError(u, e)
  \/ \E u \in Bettors : CallClearError(u)

ErrorSpec == ErrorInit /\ [][ErrorNext]_vars

Next ==
  \/ Discard
  \/ \E d \in TickSteps : Tick(d)
  \/ /\ marketCount < MaxMarkets
     /\ \E q \in QuestionLengths, bd \in Durations, rd \in Durations,
           r \in {ZeroAddress, "resolver"} : createMarket("alice", q, bd, rd, r)
  \/ /\ betCount < MaxBets
     /\ \E m \in MarketIds, u \in Bettors, a \in BetAmounts, o \in BOOLEAN,
           ok \in BOOLEAN : placeBet(m, u, a, o, ok)
  \/ \E m \in MarketIds, c \in Users : lockMarket(m, c)
  \/ \E m \in MarketIds, c \in Users \ {"bob"} : requestResolution(m, c)
  \/ \E m \in MarketIds : \E s \in Submissions(m) :
        submitDecryptedTotals(m, s.handles, s.cleartexts, s.proof)
  \/ \E m \in MarketIds, c \in Users \ {"bob"}, o \in Outcomes : setResolution(m, c, o)
  \/ \E m \in MarketIds, u \in Bettors : claimWinnings(m, u)

Spec == Init /\ [][Next]_vars


(***************************************************************************)
(* Properties.                                                             *)
(***************************************************************************)
AnyBet(m) ==
  \E u \in Bettors, a \in BetAmounts, o \in BOOLEAN, ok \in BOOLEAN : placeBet(m, u, a, o, ok)
AnyLock(m) == \E c \in Users : lockMarket(m, c)
AnyRequest(m) == \E c \in Users : requestResolution(m, c)
AnySubmit(m) ==
  \E s \in Submissions(m) : submitDecryptedTotals(m, s.handles, s.cleartexts, s.proof)
AnySetResolution(m) == \E c \in Users, o \in Outcomes : setResolution(m, c, o)
AnyClaim(m) == \E u \in Bettors : claimWinnings(m, u)

\* C1: a market's lifecycle state changes only by the steps Open -> Locked
\* (lockMarket), Locked -> Resolving (requestResolution) and Resolving ->
\* Resolved (submitDecryptedTotals); no step skips a state or goes back.
C1_LifecycleOrder ==
  [][\A m \in MarketIds :
       LET s == markets[m].state
           t == markets'[m].state
       IN t # s =>
            \/ s = Open /\ t = Locked /\ AnyLock(m)
            \/ s = Locked /\ t = Resolving /\ AnyRequest(m)
            \/ s = Resolving /\ t = Resolved /\ AnySubmit(m)]_vars

\* a market has gone through the whole lifecycle
C1_Witness == \E m \in MarketIds : marketExists(m) /\ markets[m].state = Resolved

WrongStateErrors == {"InvalidState", "Market not resolving", "MarketNotResolved"}

RejectedForState(op) ==
  /\ lastCall'.op = op
  /\ lastCall'.err \in WrongStateErrors
  /\ UNCHANGED <<contractVars, tokenVars>>

\* C2: on an existing market, placeBet and lockMarket outside Open,
\* requestResolution outside Locked, submitDecryptedTotals outside Resolving,
\* and setResolution and claimWinnings outside Resolved fail with an
\* invalid-state error and leave the market's state, outcome, pools, decrypted
\* totals and all positions unchanged.
C2_WrongStateRejected ==
  [][\A m \in MarketIds :
       LET s == markets[m].state
       IN marketExists(m) =>
            /\ (s # Open /\ AnyBet(m)) => RejectedForState("placeBet")
            /\ (s # Open /\ AnyLock(m)) => RejectedForState("lockMarket")
            /\ (s # Locked /\ AnyRequest(m)) => RejectedForState("requestResolution")
            /\ (s # Resolving /\ AnySubmit(m)) => RejectedForState("submitDecryptedTotals")
            /\ (s # Resolved /\ AnySetResolution(m)) => RejectedForState("setResolution")
            /\ (s # Resolved /\ AnyClaim(m)) => RejectedForState("claimWinnings")]_vars

\* a bet on a Locked market has just been rejected
C2_Witness ==
  /\ lastCall = [op |-> "placeBet", err |-> "InvalidState"]
  /\ \E m \in MarketIds : marketExists(m) /\ markets[m].state = Locked

Stake(m, u) == positions[<<m, u>>].yesAmount + positions[<<m, u>>].noAmount
Pool(m) == markets[m].totalYesAmount + markets[m].totalNoAmount

\* C3: a successful placeBet adds to the bettor's position and to the pool
\* total of the chosen side exactly the increase of the contract's token
\* balance over the transfer, which is at most the requested amount; so a
\* bettor's recorded stake never exceeds the tokens received from them.
C3_BetCreditsBalanceDelta ==
  /\ [](\A k \in MarketIds \X Bettors : Stake(k[1], k[2]) <= received[k])
  /\ [][\A m \in MarketIds, u \in Bettors, a \in BetAmounts, o \in BOOLEAN :
          (placeBet(m, u, a, o, TRUE) /\ placeBetError(m, TRUE) = "ok") =>
            LET delta == balance'[MarketAddr] - balance[MarketAddr]
            IN /\ delta <= a
               /\ Stake(m, u)' - Stake(m, u) = delta
               /\ Pool(m)' - Pool(m) = delta
               /\ IF o THEN /\ positions'[<<m, u>>].yesAmount
                                 = positions[<<m, u>>].yesAmount + delta
                            /\ markets'[m].totalYesAmount = markets[m].totalYesAmount + delta
                       ELSE /\ positions'[<<m, u>>].noAmount
                                 = positions[<<m, u>>].noAmount + delta
                            /\ markets'[m].totalNoAmount = markets[m].totalNoAmount + delta]_vars

\* one bet of 1000 with an allowance of 700: 700 moved, 700 credited
C3_Witness ==
  /\ betCount = 1
  /\ received[<<0, "alice">>] = 700
  /\ Stake(0, "alice") = 700
  /\ balance[MarketAddr] = 700

\* C4: once a position is claimed the flag stays set, a further claimWinnings
\* of the same user on the same market fails with AlreadyClaimed and changes
\* no position, market or balance, and a claim goes through only on a position
\* not yet claimed.
C4_ClaimOnce ==
  [][\A m \in MarketIds, u \in Bettors :
       LET k == <<m, u>>
       IN /\ positions[k].claimed => positions'[k].claimed
          /\ (positions[k].claimed /\ claimWinnings(m, u)) =>
               /\ lastCall' = [op |-> "claimWinnings", err |-> "AlreadyClaimed"]
               /\ UNCHANGED <<contractVars, tokenVars, paidOut>>
          /\ paidOut'[k] # paidOut[k] => ~positions[k].claimed /\ positions'[k].claimed]_vars

\* a second claim has just been rejected
C4_Witness ==
  /\ lastCall = [op |-> "claimWinnings", err |-> "AlreadyClaimed"]
  /\ \E k \in MarketIds \X Bettors : positions[k].claimed /\ paidOut[k] > 0

\* C5: a submission is accepted only for the market's own pool handles, and
\* the totals it stores are the true plaintexts of the market's own Yes and No
\* pool totals; a KMS proof for any other handles (swapped, another market's,
\* another contract's) is rejected.
C5_OnlyOwnTotalsAccepted ==
  [][\A m \in MarketIds : \A s \in Submissions(m) :
       (/\ marketExists(m) /\ markets[m].state = Resolving
        /\ submitDecryptedTotals(m, s.handles, s.cleartexts, s.proof)
        /\ decryptionCompleted'[m]) =>
         /\ s.handles = OwnHandles(m)
         /\ decryptedYesTotal'[m] = markets[m].totalYesAmount
         /\ decryptedNoTotal'[m] = markets[m].totalNoAmount
         /\ markets'[m].decryptedYesAmount = markets[m].totalYesAmount
         /\ markets'[m].decryptedNoAmount = markets[m].totalNoAmount]_vars

\* C6: a submission whose proof fails the KMS signature check is rejected and
\* changes nothing; while the market is Resolving, the submission of the own
\* totals with their KMS proof is accepted.
C6_InvalidProofRejected ==
  /\ [](\A m \in MarketIds :
          (marketExists(m) /\ markets[m].state = Resolving) =>
            submitDecryptedTotalsError(m, OwnHandles(m), PlainOf(OwnHandles(m)),
                                       OwnProof(m)) = "ok")
  /\ [][\A m \in MarketIds : \A s \in Submissions(m) :
          (/\ marketExists(m) /\ markets[m].state = Resolving
           /\ ~checkSignatures(s.handles, s.cleartexts, s.proof)
           /\ submitDecryptedTotals(m, s.handles, s.cleartexts, s.proof)) =>
            /\ lastCall' = [op |-> "submitDecryptedTotals", err |-> "InvalidKMSSignatures"]
            /\ UNCHANGED <<contractVars, tokenVars>>]_vars

\* a submission has just been rejected for its proof, the market still Resolving
C6_Witness ==
  /\ lastCall = [op |-> "submitDecryptedTotals", err |-> "InvalidKMSSignatures"]
  /\ \E m \in MarketIds : markets[m].state = Resolving /\ ~decryptionCompleted[m]

\* C7: wherever claimWinnings can go through, the market's totalsDecrypted
\* flag is set and its plaintext totals are the ones a submission verified
\* against a KMS proof has stored.
C7_PayoutNeedsTotals ==
  \A m \in MarketIds, u \in Bettors :
    claimWinningsError(m, u) = "ok" =>
      /\ markets[m].totalsDecrypted
      /\ decryptionCompleted[m]
      /\ markets[m].decryptedYesAmount = decryptedYesTotal[m]
      /\ markets[m].decryptedNoAmount = decryptedNoTotal[m]
      /\ \E p \in KMSProofs : p.cleartexts = <<decryptedYesTotal[m], decryptedNoTotal[m]>>

\* a winner has claimed and has been paid
C7_Witness ==
  \E k \in MarketIds \X Bettors :
    /\ positions[k].claimed
    /\ paidOut[k] > 0
    /\ markets[k[1]].resolvedOutcome \in {Yes, No}

\* C8: a market's outcome changes only from NotSet to Yes, No or Invalid;
\* once set it never changes again.
C8_OutcomeSetOnce ==
  [][\A m \in MarketIds :
       LET o == markets[m].resolvedOutcome
           o2 == markets'[m].resolvedOutcome
       IN o2 # o => (o = NotSet /\ o2 \in {Yes, No, Invalid})]_vars

\* C9: with both pools non-zero, the payout computed for a stake is
\* stake + floor(stake * losingPool / winningPool) over the integers.
C9_PayoutFormula ==
  (/\ calc.phase = "out" /\ ~calc.panic
   /\ calc.winningPool # U64Zero /\ calc.losingPool # U64Zero) =>
    /\ ~U64Lt(calc.payout, calc.userPosition)
    /\ IsFloorQuotient(U64Sub(calc.payout, calc.userPosition), calc.userPosition,
                       calc.losingPool, calc.winningPool)

RECURSIVE SumPayouts(_, _)
SumPayouts(m, S) ==
  IF S = {} THEN 0
  ELSE LET u == CHOOSE x \in S : TRUE
       IN calculatePayout(positions[<<m, u>>], markets[m], markets[m].resolvedOutcome).payout
            + SumPayouts(m, S \ {u})

\* C10: for outcome Yes or No with both pools non-zero (and the decrypted
\* totals the true pool totals), the payouts of all bettors of the winning side
\* sum to at most prizePool = totalPool - floor(totalPool * feeBps / 10000).
C10_PayoutsWithinPrizePool ==
  \A m \in MarketIds :
    LET mk == markets[m]
        totalPool == mk.decryptedYesAmount + mk.decryptedNoAmount
        prizePool == totalPool - ((totalPool * FEE_BASIS_POINTS) \div BASIS_POINTS_DENOMINATOR)
    IN (/\ marketExists(m) /\ mk.state = Resolved /\ mk.resolvedOutcome \in {Yes, No}
        /\ mk.decryptedYesAmount = mk.totalYesAmount /\ mk.decryptedYesAmount # 0
        /\ mk.decryptedNoAmount = mk.totalNoAmount /\ mk.decryptedNoAmount # 0) =>
         SumPayouts(m, Bettors) <= prizePool

\* the payout claimWinnings computes for user u on market m
PayoutOf(m, u) ==
  calculatePayout(positions[<<m, u>>], markets[m], markets[m].resolvedOutcome)

\* C11: on a Resolved market with outcome Invalid, the payout computed for
\* every position is yesAmount + noAmount, whatever the two decrypted pool
\* totals are (zero included); nothing is deducted.
C11_InvalidRefundsStake ==
  \A m \in MarketIds, u \in Bettors :
    (marketExists(m) /\ markets[m].state = Resolved
     /\ markets[m].resolvedOutcome = Invalid) =>
      PayoutOf(m, u) = [err |-> "ok", payout |-> Stake(m, u)]

\* a bettor with stakes on a market with an empty pool was refunded in full
C11_Witness ==
  \E k \in MarketIds \X Bettors :
    /\ markets[k[1]].resolvedOutcome = Invalid
    /\ markets[k[1]].decryptedYesAmount = 0 \/ markets[k[1]].decryptedNoAmount = 0
    /\ positions[k].claimed
    /\ Stake(k[1], k[2]) > 0
    /\ paidOut[k] = Stake(k[1], k[2])

WinningStake(m, u) ==
  IF markets[m].resolvedOutcome = Yes THEN positions[<<m, u>>].yesAmount
  ELSE positions[<<m, u>>].noAmount

\* C12: on a Resolved market with outcome Yes or No whose decrypted winning
\* pool or losing pool is zero, the payout computed for a position is exactly
\* its stake on the winning side.
C12_EmptyPoolPaysPrincipal ==
  \A m \in MarketIds, u \in Bettors :
    (/\ marketExists(m) /\ markets[m].state = Resolved
     /\ markets[m].resolvedOutcome \in {Yes, No}
     /\ markets[m].decryptedYesAmount = 0 \/ markets[m].decryptedNoAmount = 0) =>
      PayoutOf(m, u) = [err |-> "ok", payout |-> WinningStake(m, u)]

\* a winner of a market whose losing pool is empty was paid the stake
C12_Witness ==
  \E k \in MarketIds \X Bettors :
    /\ markets[k[1]].resolvedOutcome \in {Yes, No}
    /\ markets[k[1]].decryptedYesAmount = 0 \/ markets[k[1]].decryptedNoAmount = 0
    /\ positions[k].claimed
    /\ WinningStake(k[1], k[2]) > 0
    /\ paidOut[k] = WinningStake(k[1], k[2])

\* the stake of user u on market m on the side o (TRUE = Yes)
SideStake(pos, m, u, o) == IF o THEN pos[<<m, u>>].yesAmount ELSE pos[<<m, u>>].noAmount
SidePool(mks, m, o) == IF o THEN mks[m].totalYesAmount ELSE mks[m].totalNoAmount
BetGoesThrough(m, u, a, o) == placeBet(m, u, a, o, TRUE) /\ placeBetError(m, TRUE) = "ok"

\* C13: each bet that goes through adds the amount received to the bettor's
\* recorded stake on the chosen side (it never replaces it), so that after any
\* number of bets the recorded stakes are the sum of the amounts received.
C13_BetsAccumulate ==
  /\ [](\A k \in MarketIds \X Bettors : Stake(k[1], k[2]) = received[k])
  /\ [][\A m \in MarketIds, u \in Bettors, a \in BetAmounts, o \in BOOLEAN :
          BetGoesThrough(m, u, a, o) =>
            SideStake(positions', m, u, o)
              = SideStake(positions, m, u, o) + (received'[<<m, u>>] - received[<<m, u>>])]_vars

\* stakes of 1000 and then 500 on Yes are recorded as 1500
C13_Witness ==
  /\ betCount = 2
  /\ positions[<<0, "bob">>].yesAmount = 1500
  /\ positions[<<0, "bob">>].noAmount = 0

\* C14: a bet on one side leaves the bettor's stake on the other side and
\* the pool of the other side unchanged, does not lower the chosen side, and
\* changes no other position.
C14_BetTouchesOneSide ==
  [][\A m \in MarketIds, u \in Bettors, a \in BetAmounts, o \in BOOLEAN :
       BetGoesThrough(m, u, a, o) =>
         /\ SideStake(positions', m, u, ~o) = SideStake(positions, m, u, ~o)
         /\ SidePool(markets', m, ~o) = SidePool(markets, m, ~o)
         /\ SideStake(positions', m, u, o) >= SideStake(positions, m, u, o)
         /\ SidePool(markets', m, o) >= SidePool(markets, m, o)
         /\ \A k \in MarketIds \X Bettors : k # <<m, u>> => positions'[k] = positions[k]]_vars

\* two bettors on opposite sides, each with a stake on one side only
C14_Witness ==
  /\ positions[<<0, "bob">>].yesAmount = 1000 /\ positions[<<0, "bob">>].noAmount = 0
  /\ positions[<<0, "alice">>].noAmount = 500 /\ positions[<<0, "alice">>].yesAmount = 0
  /\ markets[0].totalYesAmount = 1000 /\ markets[0].totalNoAmount = 500

\* the call op has failed and has changed no market
Failed(op) == lastCall'.op = op /\ lastCall'.err # "ok" /\ markets' = markets

\* C15: on an existing market, lockMarket by any caller goes through exactly
\* when the market is Open and the betting deadline has passed, and then the
\* market is Locked; otherwise it fails and the market is unchanged; a market
\* that has left Open never is Open again, so it is locked at most once.
C15_LockOnlyAfterDeadline ==
  [][\A m \in MarketIds :
       marketExists(m) =>
         /\ \A c \in Users :
              lockMarket(m, c) =>
                IF markets[m].state = Open /\ now >= markets[m].bettingDeadline
                THEN markets'[m].state = Locked /\ lastCall' = NoCall
                ELSE Failed("lockMarket")
         /\ (markets[m].state # Locked /\ markets'[m].state = Locked) =>
              (markets[m].state = Open /\ now >= markets[m].bettingDeadline)
         /\ markets[m].state # Open => markets'[m].state # Open]_vars

\* a second lockMarket on a Locked market has just been rejected
C15_Witness ==
  /\ lastCall = [op |-> "lockMarket", err |-> "InvalidState"]
  /\ \E m \in MarketIds : marketExists(m) /\ markets[m].state = Locked

MayResolve(m, c) == c = markets[m].resolver \/ c = "owner"

C17_SetResolutionGuarded ==
  [][\A m \in MarketIds :
       marketExists(m) =>
         /\ \A c \in Users, o \in Outcomes :
              setResolution(m, c, o) =>
                IF markets[m].state = Resolved /\ MayResolve(m, c) /\ o \in {Yes, No, Invalid}
                THEN markets'[m].resolvedOutcome = o
                ELSE /\ Failed("setResolution")
                     /\ (markets[m].state = Resolved /\ MayResolve(m, c)) =>
                          lastCall'.err = "Invalid outcome"
                     /\ (markets[m].state = Resolved /\ ~MayResolve(m, c)) =>
                          lastCall'.err = "Unauthorized"
         /\ markets'[m].resolvedOutcome # markets[m].resolvedOutcome =>
              /\ markets[m].state = Resolved
              /\ markets'[m].resolvedOutcome \in {Yes, No, Invalid}
              /\ \E c \in Users : MayResolve(m, c)
                                   /\ setResolution(m, c, markets'[m].resolvedOutcome)]_vars

\* setResolution with NotSet by the resolver has just failed validation
C17_Witness ==
  /\ lastCall = [op |-> "setResolution", err |-> "Invalid outcome"]
  /\ \E m \in MarketIds : marketExists(m) /\ markets[m].state = Resolved

\* C18: a bet goes through only on an Open market before its betting
\* deadline; once a market is not Open, no step changes its pool totals or any
\* bettor's yesAmount or noAmount on it.
C18_BetsOnlyWhileOpen ==
  [][\A m \in MarketIds :
       marketExists(m) =>
         /\ \A u \in Bettors, a \in BetAmounts, o \in BOOLEAN, ok \in BOOLEAN :
              (placeBet(m, u, a, o, ok) /\ betCount' # betCount) =>
                (markets[m].state = Open /\ now < markets[m].bettingDeadline)
         /\ markets[m].state # Open =>
              /\ markets'[m].totalYesAmount = markets[m].totalYesAmount
              /\ markets'[m].totalNoAmount = markets[m].totalNoAmount
              /\ \A u \in Bettors :
                   /\ positions'[<<m, u>>].yesAmount = positions[<<m, u>>].yesAmount
                   /\ positions'[<<m, u>>].noAmount = positions[<<m, u>>].noAmount]_vars

\* a bet after the deadline on a market with stakes has just been rejected
C18_Witness ==
  /\ lastCall = [op |-> "placeBet", err |-> "BettingDeadlinePassed"]
  /\ \E m \in MarketIds :
       /\ marketExists(m) /\ now >= markets[m].bettingDeadline
       /\ Pool(m) > 0

\* the limits of createMarket's parameters, in bytes and seconds
ParamsInBounds(c) ==
  /\ c.qlen >= 10 /\ c.qlen <= 500
  /\ c.bettingDuration >= 3600 /\ c.bettingDuration <= 365 * 24 * 3600
  /\ c.resolutionDelay >= 3600 /\ c.resolutionDelay <= 30 * 24 * 3600
  /\ c.resolver # ZeroAddress

\* C19: a createMarket call with a parameter outside its bounds is rejected,
\* creates no market and leaves marketCount unchanged, the question error
\* coming first; a call with all four parameters within bounds (boundaries
\* included) creates the market.
C19_CreateValidated ==
  (calc.phase = "create" /\ (marketCount # 0 \/ lastCall # NoCall)) =>
    IF ParamsInBounds(calc)
    THEN /\ lastCall = NoCall
         /\ marketCount = 1
         /\ markets[0].bettingDeadline = now + calc.bettingDuration
         /\ markets[0].resolutionTime = now + calc.bettingDuration + calc.resolutionDelay
         /\ markets[0].resolver = calc.resolver
         /\ markets[0].state = Open
    ELSE /\ lastCall.op = "createMarket"
         /\ lastCall.err # "ok"
         /\ (calc.qlen < 10 \/ calc.qlen > 500) => lastCall.err = "InvalidQuestion"
         /\ marketCount = 0
         /\ markets = [m \in MarketIds |-> EmptyMarket]

\* a call with a question too long and a betting duration too short was
\* rejected for its question
C19_Witness ==
  /\ calc.phase = "create"
  /\ calc.qlen = 501 /\ calc.bettingDuration = 3599
  /\ lastCall = [op |-> "createMarket", err |-> "InvalidQuestion"]
  /\ marketCount = 0

\* everything the contract stores about market m
MarketView(m) ==
  <<markets[m], decryptionCompleted[m], decryptedYesTotal[m], decryptedNoTotal[m],
    [u \in Bettors |-> positions[<<m, u>>]]>>

\* some call on market m
AnyCallOn(m) ==
  \/ AnyBet(m) \/ AnyLock(m) \/ AnyRequest(m)
  \/ \E s \in Submissions(m) \cup TwoSubmissions(m) :
       submitDecryptedTotals(m, s.handles, s.cleartexts, s.proof)
  \/ AnySetResolution(m) \/ AnyClaim(m)

\* C20: a call on market A (bet, lock, resolution request, totals submission,
\* outcome setting, claim) leaves the state, outcome, pool totals, decrypted
\* totals, positions and claimed flags of every other market B unchanged; no
\* step changes two markets.
C20_MarketsIndependent ==
  [][\A a \in MarketIds, b \in MarketIds :
       (a # b /\ marketExists(a) /\ marketExists(b)) =>
         /\ AnyCallOn(a) => MarketView(b)' = MarketView(b)
         /\ MarketView(a)' # MarketView(a) => MarketView(b)' = MarketView(b)]_vars

\* the market created second has been bet on, resolved and claimed while the
\* one created first is still Open and has a stake of its own
C20_Witness ==
  /\ marketCount = 2
  /\ markets[1].state = Resolved /\ positions[<<1, "bob">>].claimed
  /\ markets[1].totalYesAmount = 500
  /\ markets[0].state = Open /\ markets[0].totalNoAmount = 500
  /\ ~positions[<<0, "bob">>].claimed

RECURSIVE SumStakes(_, _, _)
SumStakes(m, S, o) ==
  IF S = {} THEN 0
  ELSE LET u == CHOOSE x \in S : TRUE
       IN SideStake(positions, m, u, o) + SumStakes(m, S \ {u}, o)

\* C28: in every reachable state a market's Yes total is the sum of the
\* yesAmount of all positions on it, and its No total the sum of the noAmount.
C28_PoolsSumPositions ==
  \A m \in MarketIds :
    /\ markets[m].totalYesAmount = SumStakes(m, Bettors, TRUE)
    /\ markets[m].totalNoAmount = SumStakes(m, Bettors, FALSE)

\* two bettors on the same side: the pool is the sum of their stakes
C28_Witness ==
  /\ positions[<<0, "alice">>].yesAmount = 500
  /\ positions[<<0, "bob">>].yesAmount = 1000
  /\ markets[0].totalYesAmount = 1500

\* the totals a submission has stored for market m, and the flags
StoredTotals(m) ==
  <<decryptionCompleted[m], decryptedYesTotal[m], decryptedNoTotal[m],
    markets[m].totalsDecrypted, markets[m].decryptedYesAmount, markets[m].decryptedNoAmount>>

\* C29: once a submission has gone through for a market, every further
\* submitDecryptedTotals for it fails, and its stored plaintext totals and
\* totals-decrypted flag never change again.
C29_TotalsSubmittedOnce ==
  [][\A m \in MarketIds :
       decryptionCompleted[m] =>
         /\ StoredTotals(m)' = StoredTotals(m)
         /\ AnySubmit(m) =>
              /\ lastCall' = [op |-> "submitDecryptedTotals", err |-> "Market not resolving"]
              /\ UNCHANGED <<contractVars, tokenVars>>]_vars

\* a further submission on a market with stored totals has just been rejected
C29_Witness ==
  /\ lastCall = [op |-> "submitDecryptedTotals", err |-> "Market not resolving"]
  /\ \E m \in MarketIds : decryptionCompleted[m] /\ markets[m].totalsDecrypted

\* C27: while a market is Resolved with the outcome still NotSet, no
\* claimWinnings goes through and no position becomes claimed.
C27_NoClaimBeforeOutcome ==
  [][\A m \in MarketIds, u \in Bettors :
       (markets[m].state = Resolved /\ markets[m].resolvedOutcome = NotSet) =>
         /\ claimWinnings(m, u) => lastCall' # NoCall
         /\ positions[<<m, u>>].claimed = positions'[<<m, u>>].claimed]_vars

\* C23: a bet whose amount is below MIN_BET_AMOUNT or above MAX_BET_AMOUNT
\* does not revert for its amount and credits nothing: the position, the pools
\* and the balances are as before.
C23_OutOfRangeBetCreditsNothing ==
  [][\A m \in MarketIds, u \in Bettors, a \in BetAmounts, o \in BOOLEAN :
       (BetGoesThrough(m, u, a, o)
          /\ (a < MIN_BET_AMOUNT \/ U64Lt(MAX_BET_AMOUNT, ToU64(a)))) =>
         /\ lastCall' = NoCall
         /\ Stake(m, u)' = Stake(m, u)
         /\ Pool(m)' = Pool(m)
         /\ balance' = balance]_vars

\* C30: for every winning stake up to MAX_BET_AMOUNT and every pair of
\* non-zero 64-bit pool totals, the payout computation does not fail on
\* arithmetic, the product stake * losingPool fits 64 bits, and the payout is
\* exactly stake + floor(stake * losingPool / winningPool).
C30_PayoutExactForBoundedStake ==
  (/\ calc.phase = "out"
   /\ ~U64Lt(MAX_BET_AMOUNT, calc.userPosition)
   /\ calc.winningPool # U64Zero /\ calc.losingPool # U64Zero) =>
    /\ ~calc.panic
    /\ ~U64MulOverflows(calc.userPosition, calc.losingPool)
    /\ ~U64Lt(calc.payout, calc.userPosition)
    /\ IsFloorQuotient(U64Sub(calc.payout, calc.userPosition), calc.userPosition,
                       calc.losingPool, calc.winningPool)

RECURSIVE SumPaidOut(_, _)
SumPaidOut(m, S) ==
  IF S = {} THEN 0
  ELSE LET u == CHOOSE x \in S : TRUE
       IN paidOut[<<m, u>>] + SumPaidOut(m, S \ {u})

\* C26: for every market, the payouts transferred out for it so far sum to at
\* most the amounts credited to its Yes and No pools.
C26_MarketSolvent ==
  \A m \in MarketIds : SumPaidOut(m, Bettors) <= Pool(m)

\* the owner's configuration of the factory
FactoryConfig ==
  <<factory.implementation, factory.tokenAddress, factory.feeCollector,
    factory.feeBasisPoints, factory.minBettingDuration, factory.maxBettingDuration,
    factory.minResolutionDelay>>

AnyUpdate(c) ==
  \/ \E i \in ImplementationInputs : updateImplementation(c, i)
  \/ \E f \in FeeInputs : updateFee(c, f)
  \/ \E a \in CollectorInputs : updateFeeCollector(c, a)

\* C24: the factory's fee never exceeds MAX_FEE_BASIS_POINTS and its fee
\* collector never is the zero address; updateFee, updateFeeCollector and
\* updateImplementation go through only for the owner and only with a fee up
\* to the maximum or a non-zero address, and a rejected update leaves the
\* configuration as it was; nothing else changes the configuration.
C24_FactoryConfigGuarded ==
  /\ [](/\ factory.feeBasisPoints <= MAX_FEE_BASIS_POINTS
        /\ factory.feeCollector # ZeroAddress)
  /\ [][/\ \A c \in FactoryCallers :
             /\ (AnyUpdate(c) /\ lastCall' = NoCall) => c = factory.owner
             /\ (AnyUpdate(c) /\ lastCall' # NoCall) => FactoryConfig' = FactoryConfig
             /\ \A f \in FeeInputs :
                  updateFee(c, f) =>
                    IF c = factory.owner /\ f <= MAX_FEE_BASIS_POINTS
                    THEN lastCall' = NoCall /\ factory'.feeBasisPoints = f
                    ELSE lastCall' # NoCall
             /\ \A a \in CollectorInputs :
                  updateFeeCollector(c, a) =>
                    IF c = factory.owner /\ a # ZeroAddress
                    THEN lastCall' = NoCall /\ factory'.feeCollector = a
                    ELSE lastCall' # NoCall
             /\ \A i \in ImplementationInputs :
                  updateImplementation(c, i) =>
                    IF c = factory.owner /\ i # ZeroAddress
                    THEN lastCall' = NoCall /\ factory'.implementation = i
                    ELSE lastCall' # NoCall
        /\ FactoryConfig' # FactoryConfig => \E c \in FactoryCallers : AnyUpdate(c)]_vars

\* the owner has set the maximum fee and a new collector, and an update by
\* another caller has just been rejected
C24_Witness ==
  /\ factory.feeBasisPoints = MAX_FEE_BASIS_POINTS
  /\ factory.feeCollector = "alice"
  /\ factory.owner = "owner"
  /\ lastCall.err = "OwnableUnauthorizedAccount"

\* the addresses of the markets deployed so far
DeployedSoFar == {DeployedAddress[i] : i \in 1..factory.marketCount}

\* C25: the registry is a bijection between the ids 0..marketCount-1 and the
\* deployed markets: getMarketId(getMarketAddress(id)) = id for every id below
\* marketCount, getMarketAddress fails with MarketNotFound for every other id,
\* and getMarketId fails with MarketNotFound for every address that is not a
\* deployed market; each deployMarket that goes through takes the next id.
C25_RegistryBijection ==
  /\ [](/\ \A id \in FactoryIds :
             IF id < factory.marketCount
             THEN /\ getMarketAddress(id).err = "ok"
                  /\ getMarketAddress(id).value \in DeployedSoFar
                  /\ getMarketId(getMarketAddress(id).value) = [err |-> "ok", value |-> id]
             ELSE getMarketAddress(id).err = "MarketNotFound"
        /\ \A a \in Addresses \ DeployedSoFar : getMarketId(a).err = "MarketNotFound")
  /\ [][\A c \in FactoryCallers, q \in DeployQuestionLengths,
           d \in Durations, r \in {ZeroAddress, "resolver"} :
          deployMarket(c, q, d, MIN_RESOLUTION_DELAY, r) =>
            factory'.marketCount
              = factory.marketCount + (IF lastCall' = NoCall THEN 1 ELSE 0)]_vars

NestedBet == \E m \in MarketIds, o \in BOOLEAN : nestedPlaceBet(m, "bob", 500, o)
NestedClaim == \E m \in MarketIds : nestedClaim(m, "bob")

\* C21: from the moment a placeBet or claimWinnings call reaches its token
\* transfer until it ends, the guard is set, every nested call of placeBet or
\* claimWinnings fails with the reentrancy error and changes nothing, and no
\* position, pool or balance changes before the call itself goes on.
C21_NoReentry ==
  /\ [](frame # NoFrame <=> status = ENTERED)
  /\ [][frame # NoFrame =>
          /\ (NestedBet \/ NestedClaim) =>
               /\ frame'.nested.err = ReentrantCall
               /\ UNCHANGED <<contractVars, tokenVars, historyVars>>
          /\ frame' # NoFrame =>
               /\ UNCHANGED <<positions, tokenVars, historyVars>>
               /\ \A m \in MarketIds : Pool(m)' = Pool(m)]_vars

\* a claim is at its transfer and the token's nested placeBet has been rejected
C21_Witness ==
  /\ frame # NoFrame
  /\ frame.op = "claimWinnings"
  /\ frame.nested = [op |-> "placeBet", err |-> ReentrantCall]
  /\ positions[<<0, "bob">>].yesAmount = 500

\* the fields of a market that are stored in plaintext
PublicMarket(mk) ==
  [state |-> mk.state, resolvedOutcome |-> mk.resolvedOutcome, createdAt |-> mk.createdAt,
   bettingDeadline |-> mk.bettingDeadline, resolutionTime |-> mk.resolutionTime,
   creator |-> mk.creator, resolver |-> mk.resolver, resolved |-> mk.resolved,
   totalsDecrypted |-> mk.totalsDecrypted,
   decryptedYesAmount |-> mk.decryptedYesAmount, decryptedNoAmount |-> mk.decryptedNoAmount]

\* what an observer sees in plaintext: the result of the call, the plaintext
\* storage, and the number of BetPlaced events
PublicView ==
  [now |-> now, marketCount |-> marketCount,
   markets |-> [m \in MarketIds |-> PublicMarket(markets[m])],
   claimed |-> [k \in MarketIds \X Bettors |-> positions[k].claimed],
   decryptionCompleted |-> decryptionCompleted,
   decryptedYesTotal |-> decryptedYesTotal, decryptedNoTotal |-> decryptedNoTotal,
   publiclyDecryptable |-> publiclyDecryptable,
   lastCall |-> lastCall, betCount |-> betCount]

\* the plaintext view after placeBet on market m, from the plaintext view
\* before it and the validity of the input proof alone
PublicAfterBet(m, proofOk) ==
  LET err == placeBetError(m, proofOk)
  IN IF err # "ok" THEN [PublicView EXCEPT !.lastCall = [op |-> "placeBet", err |-> err]]
     ELSE [PublicView EXCEPT !.betCount = @ + 1]

C31_ClaimedBeforeTransfer ==
  /\ [](\A m \in MarketIds, u \in Bettors :
          (frame # NoFrame /\ frame.op = "claimWinnings"
             /\ frame.marketId = m /\ frame.user = u) =>
            positions[<<m, u>>].claimed /\ paidOut[<<m, u>>] = 0)
  /\ [][\A m \in MarketIds :
          (beginClaim(m, "bob") /\ lastCall' = NoCall) =>
            /\ positions'[<<m, "bob">>].claimed
            /\ balance' = balance]_vars

\* a claim with a payout of 500 is at its transfer: the flag is set and the
\* tokens are still in the contract
C31_Witness ==
  /\ frame # NoFrame
  /\ frame.op = "claimWinnings"
  /\ frame.payout = 500
  /\ positions[<<frame.marketId, "bob">>].claimed
  /\ balance[MarketAddr] = 500

\* C32: on a resolved market with its outcome set, claimWinnings by an
\* address that never placed a bet on the market fails and sets no claimed
\* flag.
C32_ClaimNeedsPosition ==
  [][\A m \in MarketIds, u \in Bettors :
       (/\ claimWinnings(m, u)
        /\ marketExists(m) /\ markets[m].resolvedOutcome # NotSet
        /\ ~positions[<<m, u>>].exists) =>
         /\ lastCall' # NoCall
         /\ positions' = positions]_vars

\* C33: for an existing Open market, at every time exactly one of placeBet
\* and lockMarket is allowed: placeBet (with a valid input proof) goes through
\* exactly when now < bettingDeadline, lockMarket exactly when
\* now >= bettingDeadline, the deadline instant itself belonging to lockMarket.
C33_DeadlinePartitionsTime ==
  /\ [](\A m \in MarketIds :
          (marketExists(m) /\ markets[m].state = Open) =>
            /\ (placeBetError(m, TRUE) = "ok") <=> (now < markets[m].bettingDeadline)
            /\ (lockMarketError(m) = "ok") <=> (now >= markets[m].bettingDeadline)
            /\ (placeBetError(m, TRUE) = "ok") # (lockMarketError(m) = "ok"))
  /\ [][\A m \in MarketIds :
          (marketExists(m) /\ markets[m].state = Open) =>
            /\ \A u \in Bettors, a \in BetAmounts, o \in BOOLEAN :
                 placeBet(m, u, a, o, TRUE) =>
                   ((lastCall' = NoCall) <=> (now < markets[m].bettingDeadline))
            /\ \A c \in Users :
                 lockMarket(m, c) =>
                   ((markets'[m].state = Locked) <=> (now >= markets[m].bettingDeadline))]_vars

\* at the deadline instant of an Open market a bet has just been rejected
C33_Witness ==
  \E m \in MarketIds :
    /\ marketExists(m) /\ markets[m].state = Open
    /\ now = markets[m].bettingDeadline
    /\ lastCall.op = "placeBet" /\ lastCall.err # "ok"

\* the three times of market m
MarketTimes(m) == <<markets[m].createdAt, markets[m].bettingDeadline, markets[m].resolutionTime>>

\* C34: a createMarket that goes through at time t stores createdAt = t,
\* bettingDeadline = t + bettingDuration and resolutionTime = bettingDeadline
\* + resolutionDelay; for every market that exists createdAt < bettingDeadline
\* < resolutionTime, and the three values never change afterwards.
C34_MarketTimesFixed ==
  /\ [](\A m \in MarketIds :
          marketExists(m) =>
            /\ markets[m].createdAt < markets[m].bettingDeadline
            /\ markets[m].bettingDeadline < markets[m].resolutionTime)
  /\ [][/\ \A q \in QuestionLengths, bd \in Durations, rd \in Durations,
             r \in {ZeroAddress, "resolver"} :
             (createMarket("alice", q, bd, rd, r) /\ lastCall' = NoCall) =>
               /\ marketCount' = marketCount + 1
               /\ LET id == marketCount
                  IN <<markets'[id].createdAt, markets'[id].bettingDeadline,
                       markets'[id].resolutionTime>> = <<now, now + bd, now + bd + rd>>
        /\ \A m \in MarketIds : marketExists(m) => MarketTimes(m)' = MarketTimes(m)]_vars

\* a market created at 3600 with both durations 3600 has been locked, and
\* its times are as at creation
C34_Witness ==
  \E m \in MarketIds :
    /\ marketExists(m)
    /\ MarketTimes(m) = <<3600, 7200, 10800>>
    /\ markets[m].state = Locked

TwoTo64 == [i \in 1..(NumLimbs + 1) |-> IF i = NumLimbs + 1 THEN 1 ELSE 0]
WideEq(x, y) == WideCmp(x, y, WideLimbs + 1) = 0
Answered(op) == calc.phase = "out" /\ calc.op = op

\* C36: safeAdd(a, b) returns (a + b, false) when a + b < 2^64 and (a, true)
\* when the sum overflows; safeSub(a, b) returns (a - b, false) when a >= b
\* and (0, true) when a < b, for all 64-bit a and b.
C36_SafeAddSub ==
  /\ Answered("safeAdd") =>
       IF WideLt(WideAdd(calc.a, calc.b), TwoTo64)
       THEN WideEq(calc.result, WideAdd(calc.a, calc.b)) /\ ~calc.flag
       ELSE calc.result = calc.a /\ calc.flag
  /\ Answered("safeSub") =>
       IF ~WideLt(calc.a, calc.b)
       THEN WideEq(WideAdd(calc.result, calc.b), calc.a) /\ ~calc.flag
       ELSE calc.result = U64Zero /\ calc.flag

C36_Witness ==
  /\ Answered("safeAdd")
  /\ calc.a = U64Max /\ calc.b = ToU64(2)
  /\ calc.result = U64Max /\ calc.flag

\* C37: safeMul(a, b) returns (a * b, false) when a * b < 2^64 and (a, true)
\* when the product overflows 64 bits.
C37_SafeMul ==
  Answered("safeMul") =>
    IF WideLt(WideMul(calc.a, calc.b), TwoTo64)
    THEN WideEq(calc.result, WideMul(calc.a, calc.b)) /\ ~calc.flag
    ELSE calc.result = calc.a /\ calc.flag

\* C38: one last-error record per user, overwritten by each setError and
\* cleared by nothing else; hasError(user) is true only when the user's last
\* recorded error is non-zero, so after clearError(user), whatever setError
\* calls came before, hasError(user) is false.
C38_ClearedHasNoError ==
  calc.phase = "errors" /\ calc.last.op = "clearError"
    => ~hasError(calc.errors, calc.last.user)

=============================================================================
